---- MODULE Spec2Model ----
(***************************************************************************)
(* Verification model of bempp/core/numba/kernels.py: the kernel selection, *)
(* the helper routines, the kernel evaluators and the assembly drivers.     *)
(*                                                                          *)
(* Arrays are 0-based functions, as in the source.  A number held in a      *)
(* result buffer is an exact linear combination, with integer coefficients, *)
(* of kernel evaluations K(x, y, nx, ny): the kernel evaluator is an        *)
(* argument of every driver, so its values stay symbolic and what is        *)
(* checked holds for every evaluator.  Weights, integration elements, shape *)
(* function values and multipliers are integers.                            *)
(***************************************************************************)
EXTENDS Integers, Sequences, FiniteSets, TLC

VARIABLES
    \* the operator descriptor and the mode handed to the selection
    assembly_type,
    \* the arguments of an assembly call
    test_grid_data, trial_grid_data, grids_identical,
    test_elements, trial_elements,
    nshape_test, nshape_trial, test_shapeset, trial_shapeset,
    test_global_dofs, trial_global_dofs,
    test_multipliers, trial_multipliers,
    test_normal_multipliers, trial_normal_multipliers,
    quad_points, quad_weights, kernel_parameters,
    \* the work items of a singular driver: the point buffers and, per item,
    \* the offsets of its slices and its number of points
    test_points, trial_points,
    test_offsets, trial_offsets, weights_offsets, number_of_quad_points,
    \* the result buffer
    result,
    \* one worker per iteration of the parallel loop: its position, the
    \* position of its scatter loop, the value it has read from result and
    \* has not yet written back, and its private arrays
    pc, cursor, reg, local_result, is_adjacent,
    \* a call of a helper routine, of a kernel evaluator or of the selection:
    \* its arguments, and what it returned or raised; for a singular or sparse
    \* driver, call.result is the result buffer as it was handed in
    call, returned

grids == <<test_grid_data, trial_grid_data, grids_identical>>
spaces == <<nshape_test, nshape_trial, test_shapeset, trial_shapeset,
            test_global_dofs, trial_global_dofs,
            test_multipliers, trial_multipliers>>
items == <<test_points, trial_points,
           test_offsets, trial_offsets, weights_offsets, number_of_quad_points>>
inputs == <<assembly_type, grids, test_elements, trial_elements, spaces,
            test_normal_multipliers, trial_normal_multipliers,
            quad_points, quad_weights, kernel_parameters, items>>
workers == <<pc, cursor, reg, local_result, is_adjacent>>
vars == <<inputs, result, workers, call, returned>>

(***************************************************************************)
(* Bounds of the model.                                                     *)
(***************************************************************************)
NumElements == 2
NumQuadPoints == 2
MaxVertex == 5

(***************************************************************************)
(* 0-based arrays.                                                          *)
(***************************************************************************)
Len0(a) == Cardinality(DOMAIN a)
Range0(n) == 0 .. (n - 1)
Array(s) == [k \in Range0(Len(s)) |-> s[k + 1]]

(***************************************************************************)
(* Exact values: linear combinations of symbols with integer coefficients,  *)
(* kept as functions from the symbols with a non-zero coefficient.          *)
(***************************************************************************)
Zero == [s \in {} |-> 0]
Coef(f, s) == IF s \in DOMAIN f THEN f[s] ELSE 0
Add(f, g) ==
    LET D == DOMAIN f \cup DOMAIN g
        h == [s \in D |-> Coef(f, s) + Coef(g, s)]
    IN  [s \in {t \in D : h[t] # 0} |-> h[s]]
Scale(c, f) == [s \in {t \in DOMAIN f : c * f[t] # 0} |-> c * f[s]]
Term(c, s) == [t \in (IF c = 0 THEN {} ELSE {s}) |-> c]
\* The sum a[0] + ... + a[n-1] of an array of values, in index order.
Sum(a) ==
    LET S[k \in 0 .. Len0(a)] == IF k = 0 THEN Zero ELSE Add(S[k - 1], a[k - 1])
    IN  S[Len0(a)]

(***************************************************************************)
(* Grid data.  The connectivity is stored as elements[k][e], the k-th       *)
(* vertex index of element e (shape (3, nelements)).  The grids of the      *)
(* model are strips: element e has the vertices e*stride + {0, 1, 2}, so     *)
(* that neighbours share an edge (stride 1), a vertex (stride 2) or nothing *)
(* (stride 3).  Every element is a unit right triangle in a        *)
(* coordinate plane: its normal is a coordinate axis and the columns of its *)
(* inverse transposed Jacobian (shape (3, 2)) are the two other axes.       *)
(***************************************************************************)
Axis(k) == [d \in 0 .. 2 |-> IF d = k % 3 THEN 1 ELSE 0]
StripGrid(id, stride) ==
    [id |-> id,
     elements |-> [k \in 0 .. 2 |-> [e \in Range0(NumElements) |-> e * stride + k]],
     normals |-> [e \in Range0(NumElements) |-> Axis(e + id)],
     jac_inv_trans |-> [e \in Range0(NumElements) |->
                          [d \in 0 .. 2 |->
                              [c \in 0 .. 1 |-> Axis(e + id + 1 + c)[d]]]],
     integration_elements |-> [e \in Range0(NumElements) |-> e + 2 + 3 * id]]
Strides == {1, 2, 3}
Grids(id) == {StripGrid(id, stride) : stride \in Strides}

\* grid_data.local2global(element, local_points): the image of each local
\* point in the element, an opaque point of the grid.
local2global(grid_data, element, local_points) ==
    [p \in DOMAIN local_points |->
        [grid |-> grid_data.id, element |-> element, local |-> local_points[p]]]

(***************************************************************************)
(* Shape sets on the reference triangle and the function spaces that give   *)
(* the DOF tables: DP0 (one constant function per element, one DOF per      *)
(* element) and P1 (the three hat functions, one DOF per vertex, here with  *)
(* alternating orientation multipliers as an edge-based space has).         *)
(* Values are indexed [dimension][function][point].                         *)
(***************************************************************************)
ReferencePoints == Array(<< <<0, 0>>, <<1, 0>>, <<0, 1>> >>)
ShapeValue(shapeset, fun, x) ==
    CASE shapeset = "p0" -> 1
      [] shapeset = "p1" ->
            (CASE fun = 0 -> 1 - x[1] - x[2] [] fun = 1 -> x[1] [] OTHER -> x[2])
\* A shape set of vector-valued functions, with two components: function
\* fun at x is x minus vertex fun of the reference triangle.
ShapeComponent(shapeset, dim, fun, x) ==
    IF shapeset = "rwg" THEN x[dim + 1] - ReferencePoints[fun][dim + 1]
    ELSE ShapeValue(shapeset, fun, x)
Dimension(shapeset) == IF shapeset = "rwg" THEN 2 ELSE 1
Evaluate(shapeset, points) ==
    [dim \in Range0(Dimension(shapeset)) |->
        [fun \in Range0(IF shapeset = "p0" THEN 1 ELSE 3) |->
            [p \in DOMAIN points |-> ShapeComponent(shapeset, dim, fun, points[p])]]]

Space(kind, grid_data) ==
    IF kind = "DP0"
    THEN [nshape |-> 1, shapeset |-> "p0",
          global_dofs |-> [e \in Range0(NumElements) |-> [k \in Range0(1) |-> e]],
          multipliers |-> [e \in Range0(NumElements) |-> [k \in Range0(1) |-> 1]]]
    ELSE [nshape |-> 3, shapeset |-> IF kind = "RWG" THEN "rwg" ELSE "p1",
          global_dofs |-> [e \in Range0(NumElements) |->
                              [k \in Range0(3) |-> grid_data.elements[k][e]]],
          multipliers |-> [e \in Range0(NumElements) |->
                              [k \in Range0(3) |-> IF (e + k) % 2 = 0 THEN 1 ELSE -1]]]
NumDofs(global_dofs) ==
    LET used == {global_dofs[e][k] : e \in DOMAIN global_dofs, k \in DOMAIN global_dofs[0]}
    IN  1 + CHOOSE m \in used : \A d \in used : d <= m

Alternating == [e \in Range0(NumElements) |-> IF e % 2 = 0 THEN 1 ELSE -1]
NormalMultipliers == {[e \in Range0(NumElements) |-> 1], Alternating}

\* No helper, evaluator or selection call is under way.
NoCall == call = <<>> /\ returned = <<>>
\* The call has no work items of a singular driver.
NoItems ==
    /\ test_points = <<>> /\ trial_points = <<>>
    /\ test_offsets = <<>> /\ trial_offsets = <<>> /\ weights_offsets = <<>>
    /\ number_of_quad_points = <<>>
\* No assembly call is under way.
NoAssembly ==
    /\ assembly_type = "none"
    /\ test_grid_data = <<>> /\ trial_grid_data = <<>> /\ grids_identical = FALSE
    /\ test_elements = <<>> /\ trial_elements = <<>>
    /\ nshape_test = 0 /\ nshape_trial = 0
    /\ test_shapeset = "none" /\ trial_shapeset = "none"
    /\ test_global_dofs = <<>> /\ trial_global_dofs = <<>>
    /\ test_multipliers = <<>> /\ trial_multipliers = <<>>
    /\ test_normal_multipliers = <<>> /\ trial_normal_multipliers = <<>>
    /\ quad_points = <<>> /\ quad_weights = <<>>
    /\ kernel_parameters = <<>>
    /\ NoItems
    /\ result = <<>>
    /\ pc = <<>> /\ cursor = <<>> /\ reg = <<>>
    /\ local_result = <<>> /\ is_adjacent = <<>>
Pending == [status |-> "pending"]
Returned(value) == [status |-> "returned", value |-> value]
Raised(error) == [status |-> "raised", error |-> error]

(***************************************************************************)
(* Helper routines.                                                         *)
(***************************************************************************)
\* A variant that orders the buffer point-major.
get_global_points_point_major(grid_data, elements, local_points) ==
    LET npoints == Len0(local_points)
        nelements == Len0(elements)
    IN  [c \in Range0(nelements * npoints) |->
            local2global(grid_data, elements[c % nelements], local_points)[c \div nelements]]

get_global_points(grid_data, elements, local_points) ==
    LET npoints == Len0(local_points)
        nelements == Len0(elements)
    IN  [c \in Range0(nelements * npoints) |->
            local2global(grid_data, elements[c \div npoints], local_points)[c % npoints]]

\* A variant that takes the multiplier at the position in elements.
get_normals_at_position(grid_data, nrepetitions, elements, multipliers) ==
    [c \in Range0(nrepetitions * Len0(elements)) |->
        LET element == elements[c \div nrepetitions]
        IN  [dim \in 0 .. 2 |->
                grid_data.normals[element][dim] * multipliers[c \div nrepetitions]]]

get_normals(grid_data, nrepetitions, elements, multipliers) ==
    [c \in Range0(nrepetitions * Len0(elements)) |->
        LET element == elements[c \div nrepetitions]
        IN  [dim \in 0 .. 2 |-> grid_data.normals[element][dim] * multipliers[element]]]

\* A variant that misses the comparison of the last vertex of the first
\* element with the first vertex of the second.
elements_adjacent_eight(elements, index1, index2) ==
    \/ elements[0][index1] = elements[0][index2]
    \/ elements[0][index1] = elements[1][index2]
    \/ elements[0][index1] = elements[2][index2]
    \/ elements[1][index1] = elements[0][index2]
    \/ elements[1][index1] = elements[1][index2]
    \/ elements[1][index1] = elements[2][index2]
    \/ elements[2][index1] = elements[1][index2]
    \/ elements[2][index1] = elements[2][index2]

elements_adjacent(elements, index1, index2) ==
    \/ elements[0][index1] = elements[0][index2]
    \/ elements[0][index1] = elements[1][index2]
    \/ elements[0][index1] = elements[2][index2]
    \/ elements[1][index1] = elements[0][index2]
    \/ elements[1][index1] = elements[1][index2]
    \/ elements[1][index1] = elements[2][index2]
    \/ elements[2][index1] = elements[0][index2]
    \/ elements[2][index1] = elements[1][index2]
    \/ elements[2][index1] = elements[2][index2]

(***************************************************************************)
(* The kernel evaluator handed to a driver, in its regular call shape: one  *)
(* test point against an array of trial points.  Entry j is the kernel at   *)
(* (test_point, trial_points[j]) with the normals test_normal and           *)
(* trial_normals[j].  An entry past the end of trial_normals stands for a   *)
(* read outside the array; no driver reads the kernel value computed there. *)
(***************************************************************************)
K(x, y, nx, ny) == Term(1, [x |-> x, y |-> y, nx |-> nx, ny |-> ny])
NoNormal == [dim \in 0 .. 2 |-> 0]
kernel_evaluator_regular(test_point, trial_point_values, test_normal, trial_normals) ==
    [j \in DOMAIN trial_point_values |->
        K(test_point, trial_point_values[j], test_normal,
          IF j \in DOMAIN trial_normals THEN trial_normals[j] ELSE NoNormal)]

(***************************************************************************)
(* default_scalar_regular_kernel.                                           *)
(***************************************************************************)
n_quad_points == Len0(quad_weights)
n_test_elements == Len0(test_elements)
n_trial_elements == Len0(trial_elements)
local_test_fun_values == Evaluate(test_shapeset, quad_points)
local_trial_fun_values == Evaluate(trial_shapeset, quad_points)
trial_normals ==
    get_normals(trial_grid_data, n_quad_points, trial_elements, trial_normal_multipliers)
trial_global_points == get_global_points(trial_grid_data, trial_elements, quad_points)
factors ==
    [index \in Range0(n_quad_points * n_trial_elements) |->
        quad_weights[index % n_quad_points]
        * trial_grid_data.integration_elements[trial_elements[index \div n_quad_points]]]

\* A variant that evaluates the adjacency whatever grids_identical says.
IsAdjacentAnyGrid(i) ==
    [trial_element_index \in Range0(n_trial_elements) |->
        elements_adjacent(test_grid_data.elements, test_elements[i],
                          trial_elements[trial_element_index])]

\* The adjacency flags of iteration i.
IsAdjacent(i) ==
    [trial_element_index \in Range0(n_trial_elements) |->
        grids_identical
        /\ elements_adjacent(test_grid_data.elements, test_elements[i],
                             trial_elements[trial_element_index])]

\* A variant that hands the kernel evaluator the test normal times the
\* normal multiplier of the test element.
TmpScaledTestNormal(i, test_point_index) ==
    LET test_element == test_elements[i]
        test_global_points == local2global(test_grid_data, test_element, quad_points)
        test_normal == [d \in 0 .. 2 |-> test_grid_data.normals[test_element][d]
                                            * test_normal_multipliers[test_element]]
        kernel_values ==
            kernel_evaluator_regular(test_global_points[test_point_index],
                                     trial_global_points, test_normal, trial_normals)
    IN  [index \in Range0(n_trial_elements * n_quad_points) |->
            Scale(factors[index] * test_grid_data.integration_elements[test_element]
                    * quad_weights[test_point_index],
                  kernel_values[index])]

\* tmp after the kernel evaluation at test point test_point_index of iteration i.
Tmp(i, test_point_index) ==
    LET test_element == test_elements[i]
        test_global_points == local2global(test_grid_data, test_element, quad_points)
        test_normal == test_grid_data.normals[test_element]
        kernel_values ==
            kernel_evaluator_regular(test_global_points[test_point_index],
                                     trial_global_points, test_normal, trial_normals)
    IN  [index \in Range0(n_trial_elements * n_quad_points) |->
            Scale(factors[index] * test_grid_data.integration_elements[test_element]
                    * quad_weights[test_point_index],
                  kernel_values[index])]

\* A variant that accumulates every trial element, adjacent or not.
LocalResultNoSkip(i, adjacent) ==
    [trial_element_index \in Range0(n_trial_elements) |->
      [test_fun_index \in Range0(nshape_test) |->
        [trial_fun_index \in Range0(nshape_trial) |->
          Sum([test_point_index \in Range0(n_quad_points) |->
                 Sum([quad_point_index \in Range0(n_quad_points) |->
                   Scale(local_trial_fun_values[0][trial_fun_index][quad_point_index]
                           * local_test_fun_values[0][test_fun_index][test_point_index],
                         Tmp(i, test_point_index)[trial_element_index * n_quad_points
                                                   + quad_point_index])])])]]]

\* local_result of iteration i after its loop over the test quadrature points.
LocalResult(i, adjacent) ==
    [trial_element_index \in Range0(n_trial_elements) |->
      [test_fun_index \in Range0(nshape_test) |->
        [trial_fun_index \in Range0(nshape_trial) |->
          IF adjacent[trial_element_index] THEN Zero
          ELSE Sum([test_point_index \in Range0(n_quad_points) |->
                 Sum([quad_point_index \in Range0(n_quad_points) |->
                   Scale(local_trial_fun_values[0][trial_fun_index][quad_point_index]
                           * local_test_fun_values[0][test_fun_index][test_point_index],
                         Tmp(i, test_point_index)[trial_element_index * n_quad_points
                                                   + quad_point_index])])])]]]

(***************************************************************************)
(* laplace_hypersingular_regular: the surface curls and their product.      *)
(***************************************************************************)
reference_gradient == Array(<<Array(<<-1, 1, 0>>), Array(<<-1, 0, 1>>)>>)
Cross(a, b) ==
    [d \in 0 .. 2 |-> a[(d + 1) % 3] * b[(d + 2) % 3] - a[(d + 2) % 3] * b[(d + 1) % 3]]
\* jac_inv_trans[element] @ reference_gradient, a (3, 3) matrix.
SurfaceGradients(grid_data, element) ==
    [d \in 0 .. 2 |-> [fun \in 0 .. 2 |->
        grid_data.jac_inv_trans[element][d][0] * reference_gradient[0][fun]
        + grid_data.jac_inv_trans[element][d][1] * reference_gradient[1][fun]]]
\* A vector times a row of a multiplier table, elementwise, as numpy
\* broadcasts it (a row of one entry scales the whole vector).
TimesRow(v, row) ==
    [d \in 0 .. 2 |-> v[d] * (IF Len0(row) = 1 THEN row[0] ELSE row[d])]
\* Row fun of test_surface_curls_trans[test_index], and column fun of
\* trial_surface_curls[trial_index].
SurfaceCurl(grid_data, element, multipliers, fun) ==
    TimesRow(Cross(grid_data.normals[element],
                   [d \in 0 .. 2 |-> SurfaceGradients(grid_data, element)[d][fun]]),
             multipliers[element])
curl_product(i, trial_element_index) ==
    [test_fun_index \in 0 .. 2 |-> [trial_fun_index \in 0 .. 2 |->
        LET row == SurfaceCurl(test_grid_data, test_elements[i],
                               test_multipliers, test_fun_index)
            col == SurfaceCurl(trial_grid_data, trial_elements[trial_element_index],
                               trial_multipliers, trial_fun_index)
        IN  row[0] * col[0] + row[1] * col[1] + row[2] * col[2]]]

\* local_result of iteration i of laplace_hypersingular_regular.
HypersingularLocalResult(i, adjacent) ==
    [trial_element_index \in Range0(n_trial_elements) |->
      [test_fun_index \in Range0(nshape_test) |->
        [trial_fun_index \in Range0(nshape_trial) |->
          IF adjacent[trial_element_index] THEN Zero
          ELSE Sum([test_point_index \in Range0(n_quad_points) |->
                 Sum([quad_point_index \in Range0(n_quad_points) |->
                   Scale(curl_product(i, trial_element_index)[test_fun_index][trial_fun_index],
                         Tmp(i, test_point_index)[trial_element_index * n_quad_points
                                                   + quad_point_index])])])]]]

\* The scatter loop of iteration i visits (trial_element_index,
\* test_fun_index, trial_fun_index) in row-major order; cursor[i] counts them.
NumCells == n_trial_elements * nshape_test * nshape_trial
TrialIndexAt(c) == c \div (nshape_test * nshape_trial)
TestFunAt(c) == (c \div nshape_trial) % nshape_test
TrialFunAt(c) == c % nshape_trial
\* The cell of result that iteration i updates at position c of its scatter loop.
TargetCell(i, c) ==
    <<test_global_dofs[test_elements[i]][TestFunAt(c)],
      trial_global_dofs[trial_elements[TrialIndexAt(c)]][TrialFunAt(c)]>>
\* The amount it adds there, its local_result being local.
ContributionOf(local, i, c) ==
    Scale(test_multipliers[test_elements[i]][TestFunAt(c)]
            * trial_multipliers[trial_elements[TrialIndexAt(c)]][TrialFunAt(c)],
          local[TrialIndexAt(c)][TestFunAt(c)][TrialFunAt(c)])
Contribution(i, c) == ContributionOf(local_result[i], i, c)
\* A variant of the scatter loop that assigns instead of adding.
ScatterAssign(res, i, local) ==
    LET S[c \in 0 .. NumCells] ==
            IF c = 0 THEN res
            ELSE [S[c - 1] EXCEPT ![TargetCell(i, c - 1)] =
                     ContributionOf(local, i, c - 1)]
    IN  S[NumCells]
\* The whole scatter loop of iteration i, run without interruption on res.
Scatter(res, i, local) ==
    LET S[c \in 0 .. NumCells] ==
            IF c = 0 THEN res
            ELSE [S[c - 1] EXCEPT ![TargetCell(i, c - 1)] =
                     Add(@, ContributionOf(local, i, c - 1))]
    IN  S[NumCells]

\* Lines 454-511: the private part of iteration i.
RegularCompute(i) ==
    /\ assembly_type = "default_scalar"
    /\ pc[i] = "start"
    /\ is_adjacent' = [is_adjacent EXCEPT ![i] = IsAdjacent(i)]
    /\ local_result' = [local_result EXCEPT ![i] = LocalResult(i, IsAdjacent(i))]
    /\ pc' = [pc EXCEPT ![i] = "load"]
    /\ UNCHANGED <<inputs, call, returned, result, cursor, reg>>

\* Lines 615-675: the same in laplace_hypersingular_regular.
HypersingularCompute(i) ==
    /\ assembly_type = "laplace_hypersingular"
    /\ pc[i] = "start"
    /\ is_adjacent' = [is_adjacent EXCEPT ![i] = IsAdjacent(i)]
    /\ local_result' = [local_result EXCEPT ![i] = HypersingularLocalResult(i, IsAdjacent(i))]
    /\ pc' = [pc EXCEPT ![i] = "load"]
    /\ UNCHANGED <<inputs, call, returned, result, cursor, reg>>

\* Lines 517-526 and 681-690, result[...] += ...: the read of the cell ...
RegularLoad(i) ==
    /\ pc[i] = "load"
    /\ reg' = [reg EXCEPT ![i] = result[TargetCell(i, cursor[i])]]
    /\ pc' = [pc EXCEPT ![i] = "store"]
    /\ UNCHANGED <<inputs, call, returned, result, cursor, local_result, is_adjacent>>

\* ... and the write of the sum.
RegularStore(i) ==
    /\ pc[i] = "store"
    /\ result' = [result EXCEPT ![TargetCell(i, cursor[i])] =
                      Add(reg[i], Contribution(i, cursor[i]))]
    /\ reg' = [reg EXCEPT ![i] = Zero]
    /\ cursor' = [cursor EXCEPT ![i] = cursor[i] + 1]
    /\ pc' = [pc EXCEPT ![i] = IF cursor[i] + 1 < NumCells THEN "load" ELSE "done"]
    /\ UNCHANGED <<inputs, call, returned, local_result, is_adjacent>>

\* Lines 454-526: a whole iteration of default_scalar_regular_kernel, as it
\* runs when no other iteration runs at the same time.
RegularIteration(i) ==
    /\ assembly_type = "default_scalar"
    /\ pc[i] = "start"
    /\ is_adjacent' = [is_adjacent EXCEPT ![i] = IsAdjacent(i)]
    /\ local_result' = [local_result EXCEPT ![i] = LocalResult(i, IsAdjacent(i))]
    /\ result' = Scatter(result, i, LocalResult(i, IsAdjacent(i)))
    /\ cursor' = [cursor EXCEPT ![i] = NumCells]
    /\ pc' = [pc EXCEPT ![i] = "done"]
    /\ UNCHANGED <<inputs, call, returned, reg>>

\* Lines 615-690: a whole iteration of laplace_hypersingular_regular.
HypersingularIteration(i) ==
    /\ assembly_type = "laplace_hypersingular"
    /\ pc[i] = "start"
    /\ is_adjacent' = [is_adjacent EXCEPT ![i] = IsAdjacent(i)]
    /\ local_result' = [local_result EXCEPT ![i] = HypersingularLocalResult(i, IsAdjacent(i))]
    /\ result' = Scatter(result, i, HypersingularLocalResult(i, IsAdjacent(i)))
    /\ cursor' = [cursor EXCEPT ![i] = NumCells]
    /\ pc' = [pc EXCEPT ![i] = "done"]
    /\ UNCHANGED <<inputs, call, returned, reg>>

\* The end of a driver: when every iteration of its parallel loop has
\* finished the call returns (no driver has a raise statement or a check of
\* its arguments, and the drivers are compiled with boundscheck=False).
AssemblyReturn ==
    /\ returned = Pending
    /\ \A i \in DOMAIN pc : pc[i] = "done"
    /\ returned' = Returned("None")
    /\ UNCHANGED <<inputs, call, result, workers>>

(***************************************************************************)
(* The calls of the regular driver that the model explores.                 *)
(***************************************************************************)
Identity == [e \in Range0(NumElements) |-> e]
\* The parameters handed on to the kernel evaluator (a wavenumber).
KernelParameters == Array(<<2, 1>>)
Reversed == [e \in Range0(NumElements) |-> NumElements - 1 - e]
QuadPoints == [p \in Range0(NumQuadPoints) |-> ReferencePoints[p % 3]]
QuadWeights == [p \in Range0(NumQuadPoints) |-> p + 1]
SpacePairs == {"DP0", "P1"} \X {"DP0", "P1"}

InitWorkers(n) ==
    /\ pc = [i \in Range0(n) |-> "start"]
    /\ cursor = [i \in Range0(n) |-> 0]
    /\ reg = [i \in Range0(n) |-> Zero]
    /\ local_result = [i \in Range0(n) |-> Zero]
    /\ is_adjacent = [i \in Range0(n) |-> Zero]

InitSpaces(kinds) ==
    LET test == Space(kinds[1], test_grid_data)
        trial == Space(kinds[2], trial_grid_data)
    IN  /\ nshape_test = test.nshape
        /\ nshape_trial = trial.nshape
        /\ test_shapeset = test.shapeset
        /\ trial_shapeset = trial.shapeset
        /\ test_global_dofs = test.global_dofs
        /\ trial_global_dofs = trial.global_dofs
        /\ test_multipliers = test.multipliers
        /\ trial_multipliers = trial.multipliers

\* A call of a regular driver with the function spaces of space_pairs, the
\* normal multipliers of multipliers and the quadrature weights weights.
RegularCall(space_pairs, multipliers, weights) ==
    /\ assembly_type \in {"default_scalar", "laplace_hypersingular"}
    /\ test_grid_data \in Grids(0)
    /\ grids_identical \in BOOLEAN
    /\ trial_grid_data \in
          (IF grids_identical THEN {test_grid_data}
           ELSE {g \in Grids(1) : g.elements = test_grid_data.elements})
    /\ test_elements = Identity
    /\ trial_elements \in {Identity, Reversed}
    /\ \E kinds \in space_pairs : InitSpaces(kinds)
    /\ test_normal_multipliers \in multipliers
    /\ trial_normal_multipliers \in multipliers
    /\ quad_points = QuadPoints
    /\ quad_weights = weights
    /\ kernel_parameters = KernelParameters
    /\ NoItems
    /\ result = [cell \in Range0(NumDofs(test_global_dofs))
                          \X Range0(NumDofs(trial_global_dofs)) |-> Zero]
    /\ InitWorkers(n_test_elements)
    /\ call = <<>>
    /\ returned = Pending

\* The iterations of the parallel loop run concurrently, a read and a write
\* of result being one step each.
InitRegular == RegularCall(SpacePairs \ {<<"P1", "P1">>}, {Alternating}, QuadWeights)

NextRegular ==
    \/ \E i \in DOMAIN pc : RegularCompute(i)
    \/ \E i \in DOMAIN pc : HypersingularCompute(i)
    \/ \E i \in DOMAIN pc : RegularLoad(i)
    \/ \E i \in DOMAIN pc : RegularStore(i)
    \/ AssemblyReturn

SpecRegular == InitRegular /\ [][NextRegular]_vars

\* A sequential run: the iterations run one at a time, in any order.
InitRegularSeq == RegularCall(SpacePairs, NormalMultipliers, QuadWeights)

NextRegularSeq ==
    \/ \E i \in DOMAIN pc : RegularIteration(i)
    \/ \E i \in DOMAIN pc : HypersingularIteration(i)
    \/ AssemblyReturn

SpecRegularSeq == InitRegularSeq /\ [][NextRegularSeq]_vars

VertexSet(elements, e) == {elements[k][e] : k \in 0 .. 2}

\* A call with a quad_weights array one entry shorter than the quadrature
\* point set, run sequentially.
ShortWeights == [p \in Range0(NumQuadPoints - 1) |-> p + 1]
InitMismatch == RegularCall(SpacePairs, {Alternating}, ShortWeights)
SpecMismatch == InitMismatch /\ [][NextRegularSeq]_vars

(***************************************************************************)
(* default_scalar_singular_kernel and laplace_hypersingular_singular.  The  *)
(* one grid of the call is test_grid_data.  The kernel evaluator is called  *)
(* in its singular call shape: entry p is the kernel at (test point p,      *)
(* trial point p).                                                          *)
(***************************************************************************)
nelements == Len0(test_elements)
Slice(points, offset, npoints) == [p \in Range0(npoints) |-> points[offset + p]]
One(element) == [k \in Range0(1) |-> element]
kernel_evaluator_singular(test_global, trial_global, test_normal_values, trial_normal_values) ==
    [p \in DOMAIN test_global |->
        K(test_global[p], trial_global[p], test_normal_values[p], trial_normal_values[p])]

\* Lines 723-751: kernel_values of work item index.
SingularKernelValues(index) ==
    LET npoints == number_of_quad_points[index]
        test_local_points == Slice(test_points, test_offsets[index], npoints)
        trial_local_points == Slice(trial_points, trial_offsets[index], npoints)
    IN  kernel_evaluator_singular(
            local2global(test_grid_data, test_elements[index], test_local_points),
            local2global(test_grid_data, trial_elements[index], trial_local_points),
            get_normals(test_grid_data, npoints, One(test_elements[index]),
                        test_normal_multipliers),
            get_normals(test_grid_data, npoints, One(trial_elements[index]),
                        trial_normal_multipliers))

\* Lines 807-857: the same in laplace_hypersingular_singular, where the two
\* normals are single vectors.
HypersingularSingularKernelValues(index) ==
    LET npoints == number_of_quad_points[index]
        test_element == test_elements[index]
        trial_element == trial_elements[index]
        test_global == local2global(test_grid_data, test_element,
                                    Slice(test_points, test_offsets[index], npoints))
        trial_global == local2global(test_grid_data, trial_element,
                                     Slice(trial_points, trial_offsets[index], npoints))
        test_normal == [d \in 0 .. 2 |-> test_grid_data.normals[test_element][d]
                                            * test_normal_multipliers[test_element]]
        trial_normal == [d \in 0 .. 2 |-> test_grid_data.normals[trial_element][d]
                                             * trial_normal_multipliers[trial_element]]
    IN  [p \in Range0(npoints) |-> K(test_global[p], trial_global[p], test_normal, trial_normal)]

\* Lines 824-849: surface_curl_products of work item index.
surface_curl_products(index) ==
    LET test_element == test_elements[index]
        trial_element == trial_elements[index]
        test_normal == [d \in 0 .. 2 |-> test_grid_data.normals[test_element][d]
                                            * test_normal_multipliers[test_element]]
        trial_normal == [d \in 0 .. 2 |-> test_grid_data.normals[trial_element][d]
                                             * trial_normal_multipliers[trial_element]]
        test_surface_curl_trans ==
            [fun_index \in 0 .. 2 |->
                Cross(test_normal,
                      [d \in 0 .. 2 |-> SurfaceGradients(test_grid_data, test_element)[d][fun_index]])]
        trial_surface_curl ==
            [fun_index \in 0 .. 2 |->
                Cross(trial_normal,
                      [d \in 0 .. 2 |-> SurfaceGradients(test_grid_data, trial_element)[d][fun_index]])]
    IN  [a \in 0 .. 2 |-> [b \in 0 .. 2 |->
            test_surface_curl_trans[a][0] * trial_surface_curl[b][0]
            + test_surface_curl_trans[a][1] * trial_surface_curl[b][1]
            + test_surface_curl_trans[a][2] * trial_surface_curl[b][2]]]

\* The loops of lines 752-772 visit (test_fun_index, trial_fun_index) in
\* row-major order and make, for each, one += per point and then one *=;
\* cursor[index] counts these updates.
StepsPerCell(index) == number_of_quad_points[index] + 1
NumSteps(index) == nshape_test * nshape_trial * StepsPerCell(index)
StepTestFun(index, s) == (s \div StepsPerCell(index)) \div nshape_trial
StepTrialFun(index, s) == (s \div StepsPerCell(index)) % nshape_trial
StepPoint(index, s) == s % StepsPerCell(index)

\* A variant that leaves the position of the work item out of the index.
SingularCellShared(index, s) ==
    StepTestFun(index, s) * nshape_trial + StepTrialFun(index, s)

\* The cell of result that update s of work item index is made on.
SingularCell(index, s) ==
    nshape_trial * nshape_test * index
    + StepTestFun(index, s) * nshape_trial + StepTrialFun(index, s)

\* A variant that reads the weight of the point without weights_offset.
SingularStepNoOffset(index, s, old, kernel_values) ==
    LET point_index == StepPoint(index, s)
        npoints == number_of_quad_points[index]
        test_fun_values == Evaluate(test_shapeset, Slice(test_points, test_offsets[index], npoints))
        trial_fun_values == Evaluate(trial_shapeset, Slice(trial_points, trial_offsets[index], npoints))
    IN  IF point_index < npoints
        THEN Add(old, Scale(quad_weights[point_index]
                              * test_fun_values[0][StepTestFun(index, s)][point_index]
                              * trial_fun_values[0][StepTrialFun(index, s)][point_index],
                            kernel_values[point_index]))
        ELSE Scale(test_grid_data.integration_elements[test_elements[index]]
                     * test_grid_data.integration_elements[trial_elements[index]],
                   old)

\* A variant whose last update scales what the item has added and leaves
\* the content the cell had on entry as it was.
SingularStepAdditive(index, s, old, kernel_values) ==
    LET point_index == StepPoint(index, s)
        npoints == number_of_quad_points[index]
        test_fun_values == Evaluate(test_shapeset, Slice(test_points, test_offsets[index], npoints))
        trial_fun_values == Evaluate(trial_shapeset, Slice(trial_points, trial_offsets[index], npoints))
        entry == call.result[SingularCell(index, s)]
    IN  IF point_index < npoints
        THEN Add(old, Scale(quad_weights[weights_offsets[index] + point_index]
                              * test_fun_values[0][StepTestFun(index, s)][point_index]
                              * trial_fun_values[0][StepTrialFun(index, s)][point_index],
                            kernel_values[point_index]))
        ELSE Add(entry,
                 Scale(test_grid_data.integration_elements[test_elements[index]]
                         * test_grid_data.integration_elements[trial_elements[index]],
                       Add(old, Scale(-1, entry))))

\* The value update s of default_scalar_singular_kernel leaves in its cell,
\* old being the value it read there.
SingularStep(index, s, old, kernel_values) ==
    LET point_index == StepPoint(index, s)
        npoints == number_of_quad_points[index]
        test_fun_values == Evaluate(test_shapeset, Slice(test_points, test_offsets[index], npoints))
        trial_fun_values == Evaluate(trial_shapeset, Slice(trial_points, trial_offsets[index], npoints))
    IN  IF point_index < npoints
        THEN Add(old, Scale(quad_weights[weights_offsets[index] + point_index]
                              * test_fun_values[0][StepTestFun(index, s)][point_index]
                              * trial_fun_values[0][StepTrialFun(index, s)][point_index],
                            kernel_values[point_index]))
        ELSE Scale(test_grid_data.integration_elements[test_elements[index]]
                     * test_grid_data.integration_elements[trial_elements[index]],
                   old)

\* The same for laplace_hypersingular_singular, lines 859-878.
HypersingularSingularStep(index, s, old, kernel_values) ==
    LET point_index == StepPoint(index, s)
    IN  IF point_index < number_of_quad_points[index]
        THEN Add(old, Scale(quad_weights[weights_offsets[index] + point_index],
                            kernel_values[point_index]))
        ELSE Scale(test_grid_data.integration_elements[test_elements[index]]
                     * test_grid_data.integration_elements[trial_elements[index]]
                     * surface_curl_products(index)[StepTestFun(index, s)][StepTrialFun(index, s)],
                   old)

\* Lines 723-751: the private part of work item index.
SingularCompute(index) ==
    /\ assembly_type = "default_scalar"
    /\ pc[index] = "start"
    /\ local_result' = [local_result EXCEPT ![index] = SingularKernelValues(index)]
    /\ pc' = [pc EXCEPT ![index] = "load"]
    /\ UNCHANGED <<inputs, call, returned, result, cursor, reg, is_adjacent>>

\* Lines 807-857: the same in laplace_hypersingular_singular.
HypersingularSingularCompute(index) ==
    /\ assembly_type = "laplace_hypersingular"
    /\ pc[index] = "start"
    /\ local_result' = [local_result EXCEPT ![index] = HypersingularSingularKernelValues(index)]
    /\ pc' = [pc EXCEPT ![index] = "load"]
    /\ UNCHANGED <<inputs, call, returned, result, cursor, reg, is_adjacent>>

\* result[...] += ... and result[...] *= ...: the read of the cell ...
SingularLoad(index) ==
    /\ pc[index] = "load"
    /\ reg' = [reg EXCEPT ![index] = result[SingularCell(index, cursor[index])]]
    /\ pc' = [pc EXCEPT ![index] = "store"]
    /\ UNCHANGED <<inputs, call, returned, result, cursor, local_result, is_adjacent>>

\* ... and the write of the new value, lines 755-772 ...
SingularStore(index) ==
    /\ assembly_type = "default_scalar"
    /\ pc[index] = "store"
    /\ result' = [result EXCEPT ![SingularCell(index, cursor[index])] =
                      SingularStep(index, cursor[index], reg[index], local_result[index])]
    /\ reg' = [reg EXCEPT ![index] = Zero]
    /\ cursor' = [cursor EXCEPT ![index] = cursor[index] + 1]
    /\ pc' = [pc EXCEPT ![index] =
                 IF cursor[index] + 1 < NumSteps(index) THEN "load" ELSE "done"]
    /\ UNCHANGED <<inputs, call, returned, local_result, is_adjacent>>

\* ... and lines 862-878.
HypersingularSingularStore(index) ==
    /\ assembly_type = "laplace_hypersingular"
    /\ pc[index] = "store"
    /\ result' = [result EXCEPT ![SingularCell(index, cursor[index])] =
                      HypersingularSingularStep(index, cursor[index], reg[index],
                                                local_result[index])]
    /\ reg' = [reg EXCEPT ![index] = Zero]
    /\ cursor' = [cursor EXCEPT ![index] = cursor[index] + 1]
    /\ pc' = [pc EXCEPT ![index] =
                 IF cursor[index] + 1 < NumSteps(index) THEN "load" ELSE "done"]
    /\ UNCHANGED <<inputs, call, returned, local_result, is_adjacent>>

\* All the updates of work item index, run without interruption on res.
SingularRun(res, index) ==
    LET S[s \in 0 .. NumSteps(index)] ==
            IF s = 0 THEN res
            ELSE [S[s - 1] EXCEPT ![SingularCell(index, s - 1)] =
                     SingularStep(index, s - 1, @, SingularKernelValues(index))]
    IN  S[NumSteps(index)]
HypersingularSingularRun(res, index) ==
    LET S[s \in 0 .. NumSteps(index)] ==
            IF s = 0 THEN res
            ELSE [S[s - 1] EXCEPT ![SingularCell(index, s - 1)] =
                     HypersingularSingularStep(index, s - 1, @,
                                               HypersingularSingularKernelValues(index))]
    IN  S[NumSteps(index)]

\* Lines 723-772: a whole iteration of default_scalar_singular_kernel, as it
\* runs when no other iteration runs at the same time.
SingularIteration(index) ==
    /\ assembly_type = "default_scalar"
    /\ pc[index] = "start"
    /\ local_result' = [local_result EXCEPT ![index] = SingularKernelValues(index)]
    /\ result' = SingularRun(result, index)
    /\ cursor' = [cursor EXCEPT ![index] = NumSteps(index)]
    /\ pc' = [pc EXCEPT ![index] = "done"]
    /\ UNCHANGED <<inputs, call, returned, reg, is_adjacent>>

\* A variant that scales the normal of the test element in place, in the
\* normals of the grid, where the source makes a scaled copy.
HypersingularSingularIterationInPlace(index) ==
    /\ assembly_type = "laplace_hypersingular"
    /\ pc[index] = "start"
    /\ local_result' = [local_result EXCEPT ![index] = HypersingularSingularKernelValues(index)]
    /\ result' = HypersingularSingularRun(result, index)
    /\ cursor' = [cursor EXCEPT ![index] = NumSteps(index)]
    /\ pc' = [pc EXCEPT ![index] = "done"]
    /\ test_grid_data' =
          [test_grid_data EXCEPT !.normals[test_elements[index]] =
              [d \in 0 .. 2 |-> @[d] * test_normal_multipliers[test_elements[index]]]]
    /\ trial_grid_data' = test_grid_data'
    /\ UNCHANGED <<assembly_type, grids_identical, test_elements, trial_elements, spaces,
                   test_normal_multipliers, trial_normal_multipliers,
                   quad_points, quad_weights, kernel_parameters, items>>
    /\ UNCHANGED <<call, returned, reg, is_adjacent>>

\* Lines 807-878: a whole iteration of laplace_hypersingular_singular.
HypersingularSingularIteration(index) ==
    /\ assembly_type = "laplace_hypersingular"
    /\ pc[index] = "start"
    /\ local_result' = [local_result EXCEPT ![index] = HypersingularSingularKernelValues(index)]
    /\ result' = HypersingularSingularRun(result, index)
    /\ cursor' = [cursor EXCEPT ![index] = NumSteps(index)]
    /\ pc' = [pc EXCEPT ![index] = "done"]
    /\ UNCHANGED <<inputs, call, returned, reg, is_adjacent>>

(***************************************************************************)
(* The calls of the singular drivers that the model explores: one work item *)
(* per element of the grid, a point buffer with room for NumQuadPoints      *)
(* points per item.                                                         *)
(***************************************************************************)
Same == [e \in Range0(NumElements) |-> 0]
Packed == [e \in Range0(NumElements) |-> e * NumQuadPoints]
ReversedPacked == [e \in Range0(NumElements) |-> (NumElements - 1 - e) * NumQuadPoints]
BufferPoints(shift) ==
    [q \in Range0(NumElements * NumQuadPoints) |-> ReferencePoints[(q + shift) % 3]]
BufferWeights == [q \in Range0(NumElements * NumQuadPoints) |-> q + 1]
\* What a buffer that is not zero holds in every cell before the call: a
\* value that no kernel evaluation of the call yields.
Nowhere == [grid |-> -1, element |-> -1, local |-> ReferencePoints[0]]
Previous == K(Nowhere, Nowhere, NoNormal, NoNormal)

\* A call of a singular driver on the element pairs of pairings, with the
\* slices of layouts (test, trial and weights offsets), the numbers of
\* points of counts and a result buffer filled with one of initials; the
\* hypersingular driver is called for P1 spaces only.
SingularCall(space_pairs, pairings, layouts, counts, multipliers, initials) ==
    /\ assembly_type \in {"default_scalar", "laplace_hypersingular"}
    /\ test_grid_data = StripGrid(0, 1)
    /\ trial_grid_data = test_grid_data
    /\ grids_identical = TRUE
    /\ \E pair \in pairings : test_elements = pair[1] /\ trial_elements = pair[2]
    /\ \E kinds \in (IF assembly_type = "default_scalar" THEN space_pairs
                       ELSE {<<"P1", "P1">>}) :
          /\ nshape_test = Space(kinds[1], test_grid_data).nshape
          /\ nshape_trial = Space(kinds[2], test_grid_data).nshape
          /\ test_shapeset = Space(kinds[1], test_grid_data).shapeset
          /\ trial_shapeset = Space(kinds[2], test_grid_data).shapeset
    /\ test_global_dofs = <<>> /\ trial_global_dofs = <<>>
    /\ test_multipliers = <<>> /\ trial_multipliers = <<>>
    /\ test_normal_multipliers \in multipliers
    /\ trial_normal_multipliers \in multipliers
    /\ quad_points = <<>>
    /\ quad_weights = BufferWeights
    /\ kernel_parameters = KernelParameters
    /\ test_points = BufferPoints(0)
    /\ trial_points = BufferPoints(1)
    /\ \E layout \in layouts :
          /\ test_offsets = layout[1]
          /\ trial_offsets = layout[2]
          /\ weights_offsets = layout[3]
    /\ number_of_quad_points \in counts
    /\ \E initial \in initials :
          /\ result = [cell \in Range0(nshape_test * nshape_trial * nelements) |-> initial]
          /\ call = [result |-> result]
    /\ InitWorkers(nelements)
    /\ returned = Pending

\* The iterations of the parallel loop run concurrently, a read and a write
\* of result being one step each; every work item has one point.
InitSingular ==
    SingularCall(SpacePairs \ {<<"P1", "P1">>},
                 {<<Identity, Reversed>>, <<Same, Same>>},
                 {<<Same, Same, Same>>},
                 {[e \in Range0(NumElements) |-> 1]},
                 {Alternating}, {Zero})

NextSingular ==
    \/ \E index \in DOMAIN pc : SingularCompute(index)
    \/ \E index \in DOMAIN pc : HypersingularSingularCompute(index)
    \/ \E index \in DOMAIN pc : SingularLoad(index)
    \/ \E index \in DOMAIN pc : SingularStore(index)
    \/ \E index \in DOMAIN pc : HypersingularSingularStore(index)
    \/ AssemblyReturn

SpecSingular == InitSingular /\ [][NextSingular]_vars

\* A sequential run: the work items are processed one at a time, in any order.
InitSingularSeq ==
    SingularCall(SpacePairs,
                 {<<Identity, Identity>>, <<Identity, Reversed>>, <<Same, Same>>},
                 {<<Packed, Packed, Packed>>, <<Same, Same, Same>>,
                  <<Packed, Same, ReversedPacked>>},
                 {[e \in Range0(NumElements) |-> n] : n \in 1 .. NumQuadPoints}
                    \cup {[e \in Range0(NumElements) |-> 1 + (e % NumQuadPoints)]},
                 NormalMultipliers, {Zero, Previous})

NextSingularSeq ==
    \/ \E index \in DOMAIN pc : SingularIteration(index)
    \/ \E index \in DOMAIN pc : HypersingularSingularIteration(index)
    \/ AssemblyReturn

SpecSingularSeq == InitSingularSeq /\ [][NextSingularSeq]_vars

(***************************************************************************)
(* default_sparse_kernel with l2_identity_kernel.  The grid of the call is  *)
(* test_grid_data and its elements argument is test_elements; the values in *)
(* result are integers.                                                     *)
(***************************************************************************)
\* The loops of lines 340-351 visit (test_index, trial_index, dim_index,
\* quad_index) in row-major order; cursor[element_index] counts them.
SparseQuadPoints == Len0(Evaluate(test_shapeset, quad_points)[0][0])
SparseSteps == nshape_test * nshape_trial * Dimension(test_shapeset) * SparseQuadPoints
SparseQuadIndex(s) == s % SparseQuadPoints
SparseDimIndex(s) == (s \div SparseQuadPoints) % Dimension(test_shapeset)
SparseTrialIndex(s) == (s \div (SparseQuadPoints * Dimension(test_shapeset))) % nshape_trial
SparseTestIndex(s) == s \div (SparseQuadPoints * Dimension(test_shapeset) * nshape_trial)
SparseCell(element_index, s) ==
    nshape_test * nshape_trial * element_index
    + SparseTestIndex(s) * nshape_trial + SparseTrialIndex(s)

\* A variant that takes the integration element of the element whose number
\* is the position.
SparseTermAtPosition(element_index, s) ==
    Evaluate(test_shapeset, quad_points)[SparseDimIndex(s)][SparseTestIndex(s)][SparseQuadIndex(s)]
    * Evaluate(trial_shapeset, quad_points)[SparseDimIndex(s)][SparseTrialIndex(s)][SparseQuadIndex(s)]
    * quad_weights[SparseQuadIndex(s)]
    * test_grid_data.integration_elements[element_index]

\* A variant that takes the trial function at the first quadrature point.
SparseTermFirstPoint(element_index, s) ==
    Evaluate(test_shapeset, quad_points)[SparseDimIndex(s)][SparseTestIndex(s)][SparseQuadIndex(s)]
    * Evaluate(trial_shapeset, quad_points)[SparseDimIndex(s)][SparseTrialIndex(s)][0]
    * quad_weights[SparseQuadIndex(s)]
    * test_grid_data.integration_elements[test_elements[element_index]]

\* The amount that update s of element position element_index adds.
SparseTerm(element_index, s) ==
    Evaluate(test_shapeset, quad_points)[SparseDimIndex(s)][SparseTestIndex(s)][SparseQuadIndex(s)]
    * Evaluate(trial_shapeset, quad_points)[SparseDimIndex(s)][SparseTrialIndex(s)][SparseQuadIndex(s)]
    * quad_weights[SparseQuadIndex(s)]
    * test_grid_data.integration_elements[test_elements[element_index]]

\* Lines 383-397 and 331-338: iteration element_index enters the kernel.
SparseEnter(element_index) ==
    /\ assembly_type = "default_sparse"
    /\ pc[element_index] = "start"
    /\ pc' = [pc EXCEPT ![element_index] = "load"]
    /\ UNCHANGED <<inputs, call, returned, result, cursor, reg, local_result, is_adjacent>>

\* Lines 344-351, result[...] += ...: the read of the cell ...
SparseLoad(element_index) ==
    /\ assembly_type = "default_sparse"
    /\ pc[element_index] = "load"
    /\ reg' = [reg EXCEPT ![element_index] =
                   result[SparseCell(element_index, cursor[element_index])]]
    /\ pc' = [pc EXCEPT ![element_index] = "store"]
    /\ UNCHANGED <<inputs, call, returned, result, cursor, local_result, is_adjacent>>

\* ... and the write of the sum.
SparseStore(element_index) ==
    /\ assembly_type = "default_sparse"
    /\ pc[element_index] = "store"
    /\ result' = [result EXCEPT ![SparseCell(element_index, cursor[element_index])] =
                      reg[element_index] + SparseTerm(element_index, cursor[element_index])]
    /\ reg' = [reg EXCEPT ![element_index] = 0]
    /\ cursor' = [cursor EXCEPT ![element_index] = cursor[element_index] + 1]
    /\ pc' = [pc EXCEPT ![element_index] =
                 IF cursor[element_index] + 1 < SparseSteps THEN "load" ELSE "done"]
    /\ UNCHANGED <<inputs, call, returned, local_result, is_adjacent>>

\* The calls that the model explores: a test space, a trial space and the
\* number of points of the quadrature rule; the result buffer is zero or
\* holds a different number in every cell.
SparseCases ==
    {<<"DP0", "DP0", NumQuadPoints>>, <<"P1", "DP0", NumQuadPoints>>,
     <<"DP0", "P1", 1>>, <<"P1", "P1", 1>>, <<"RWG", "RWG", 1>>}
InitSparse ==
    /\ assembly_type = "default_sparse"
    /\ test_grid_data = StripGrid(0, 1)
    /\ trial_grid_data = test_grid_data
    /\ grids_identical = TRUE
    /\ test_elements \in {Identity, Reversed, Same}
    /\ trial_elements = <<>>
    /\ \E case \in SparseCases :
          /\ nshape_test = Space(case[1], test_grid_data).nshape
          /\ nshape_trial = Space(case[2], test_grid_data).nshape
          /\ test_shapeset = Space(case[1], test_grid_data).shapeset
          /\ trial_shapeset = Space(case[2], test_grid_data).shapeset
          /\ quad_points = [p \in Range0(case[3]) |-> QuadPoints[p]]
          /\ quad_weights = [p \in Range0(case[3]) |-> QuadWeights[p]]
    /\ test_global_dofs = <<>> /\ trial_global_dofs = <<>>
    /\ test_multipliers = <<>> /\ trial_multipliers = <<>>
    /\ test_normal_multipliers = Alternating
    /\ trial_normal_multipliers = Alternating
    /\ kernel_parameters = <<>>
    /\ NoItems
    /\ \E numbered \in BOOLEAN :
          result = [cell \in Range0(nshape_test * nshape_trial * Len0(test_elements)) |->
                       IF numbered THEN cell + 1 ELSE 0]
    /\ call = [result |-> result]
    /\ pc = [i \in DOMAIN test_elements |-> "start"]
    /\ cursor = [i \in DOMAIN test_elements |-> 0]
    /\ reg = [i \in DOMAIN test_elements |-> 0]
    /\ local_result = [i \in DOMAIN test_elements |-> 0]
    /\ is_adjacent = [i \in DOMAIN test_elements |-> FALSE]
    /\ returned = Pending

NextSparse ==
    \/ \E element_index \in DOMAIN pc : SparseEnter(element_index)
    \/ \E element_index \in DOMAIN pc : SparseLoad(element_index)
    \/ \E element_index \in DOMAIN pc : SparseStore(element_index)
    \/ AssemblyReturn

SpecSparse == InitSparse /\ [][NextSparse]_vars

(***************************************************************************)
(* regular_sphere(0): the octahedron, whose vertices 0..5 are the points    *)
(* +x, -x, +y, -y, +z, -z and whose faces take one vertex of each axis.     *)
(* The regular single layer operator is assembled on it against itself.     *)
(***************************************************************************)
OctahedronElements == 8
OctahedronFace(e) ==
    Array(<<e % 2, 2 + ((e \div 2) % 2), 4 + (e \div 4)>>)
Octahedron ==
    [id |-> 0,
     elements |-> [k \in 0 .. 2 |-> [e \in Range0(OctahedronElements) |->
                      OctahedronFace(e)[(k + e) % 3]]],
     normals |-> [e \in Range0(OctahedronElements) |->
                     [d \in 0 .. 2 |-> IF OctahedronFace(e)[d] % 2 = 0 THEN 1 ELSE -1]],
     jac_inv_trans |-> [e \in Range0(OctahedronElements) |->
                          [d \in 0 .. 2 |-> [c \in 0 .. 1 |-> Axis(e + 1 + c)[d]]]],
     integration_elements |-> [e \in Range0(OctahedronElements) |-> e + 2]]
SphereSpace(kind) ==
    IF kind = "DP0"
    THEN [nshape |-> 1, shapeset |-> "p0",
          global_dofs |-> [e \in Range0(OctahedronElements) |-> [k \in Range0(1) |-> e]],
          multipliers |-> [e \in Range0(OctahedronElements) |-> [k \in Range0(1) |-> 1]]]
    ELSE [nshape |-> 3, shapeset |-> "p1",
          global_dofs |-> [e \in Range0(OctahedronElements) |->
                              [k \in Range0(3) |-> Octahedron.elements[k][e]]],
          multipliers |-> [e \in Range0(OctahedronElements) |-> [k \in Range0(3) |-> 1]]]

InitSphere ==
    /\ assembly_type = "default_scalar"
    /\ test_grid_data = Octahedron
    /\ trial_grid_data = Octahedron
    /\ grids_identical = TRUE
    /\ test_elements = [e \in Range0(OctahedronElements) |-> e]
    /\ trial_elements = test_elements
    /\ \E kinds \in SpacePairs :
          /\ nshape_test = SphereSpace(kinds[1]).nshape
          /\ nshape_trial = SphereSpace(kinds[2]).nshape
          /\ test_shapeset = SphereSpace(kinds[1]).shapeset
          /\ trial_shapeset = SphereSpace(kinds[2]).shapeset
          /\ test_global_dofs = SphereSpace(kinds[1]).global_dofs
          /\ trial_global_dofs = SphereSpace(kinds[2]).global_dofs
          /\ test_multipliers = SphereSpace(kinds[1]).multipliers
          /\ trial_multipliers = SphereSpace(kinds[2]).multipliers
    /\ test_normal_multipliers = [e \in Range0(OctahedronElements) |-> 1]
    /\ trial_normal_multipliers = [e \in Range0(OctahedronElements) |-> 1]
    /\ quad_points = QuadPoints
    /\ quad_weights = QuadWeights
    /\ kernel_parameters = KernelParameters
    /\ NoItems
    /\ result = [cell \in Range0(NumDofs(test_global_dofs))
                          \X Range0(NumDofs(trial_global_dofs)) |-> Zero]
    /\ InitWorkers(n_test_elements)
    /\ call = <<>>
    /\ returned = Pending

NextSphere ==
    \/ \E i \in DOMAIN pc : RegularIteration(i)
    \/ AssemblyReturn

SpecSphere == InitSphere /\ [][NextSphere]_vars

(***************************************************************************)
(* reference_triangle(): the grid of one element, and the sparse driver on  *)
(* it with the piecewise linear shape set on both sides.  The quadrature    *)
(* rules explored put the same weight on the three vertices, once or        *)
(* several times over, so that they integrate the three shape functions     *)
(* alike, as a rule that is exact for linear functions does.                *)
(***************************************************************************)
reference_triangle_vertices ==
    Array(<<Array(<<0, 0, 0>>), Array(<<1, 0, 0>>), Array(<<0, 1, 0>>)>>)
reference_triangle_elements == [k \in 0 .. 2 |-> [e \in Range0(1) |-> k]]
\* Grid(vertices, elements): the normal is the cross product of the two
\* edges at the first vertex, of length 1 here, and that length is the
\* integration element (twice the area).
reference_triangle ==
    LET v == reference_triangle_vertices
        edge(k) == [d \in 0 .. 2 |-> v[k][d] - v[0][d]]
        normal == Cross(edge(1), edge(2))
    IN  [id |-> 0,
         elements |-> reference_triangle_elements,
         normals |-> [e \in Range0(1) |-> normal],
         jac_inv_trans |-> [e \in Range0(1) |->
                              [d \in 0 .. 2 |-> [c \in 0 .. 1 |-> Axis(c)[d]]]],
         integration_elements |-> [e \in Range0(1) |-> normal[0] + normal[1] + normal[2]]]
VertexRule(rounds) ==
    [points |-> [q \in Range0(3 * rounds) |-> ReferencePoints[q % 3]],
     weights |-> [q \in Range0(3 * rounds) |-> 1 + (q \div 3)]]

InitTriangle ==
    /\ assembly_type = "default_sparse"
    /\ test_grid_data = reference_triangle
    /\ trial_grid_data = test_grid_data
    /\ grids_identical = TRUE
    /\ test_elements = [e \in Range0(1) |-> 0]
    /\ trial_elements = <<>>
    /\ nshape_test = 3 /\ nshape_trial = 3
    /\ test_shapeset = "p1" /\ trial_shapeset = "p1"
    /\ \E rounds \in 1 .. NumQuadPoints :
          /\ quad_points = VertexRule(rounds).points
          /\ quad_weights = VertexRule(rounds).weights
    /\ test_global_dofs = <<>> /\ trial_global_dofs = <<>>
    /\ test_multipliers = <<>> /\ trial_multipliers = <<>>
    /\ test_normal_multipliers = [e \in Range0(1) |-> 1]
    /\ trial_normal_multipliers = [e \in Range0(1) |-> 1]
    /\ kernel_parameters = <<>>
    /\ NoItems
    /\ \E numbered \in BOOLEAN :
          result = [cell \in Range0(nshape_test * nshape_trial) |->
                       IF numbered THEN cell + 1 ELSE 0]
    /\ call = [result |-> result]
    /\ pc = [i \in DOMAIN test_elements |-> "start"]
    /\ cursor = [i \in DOMAIN test_elements |-> 0]
    /\ reg = [i \in DOMAIN test_elements |-> 0]
    /\ local_result = [i \in DOMAIN test_elements |-> 0]
    /\ is_adjacent = [i \in DOMAIN test_elements |-> FALSE]
    /\ returned = Pending

SpecTriangle == InitTriangle /\ [][NextSparse]_vars

(***************************************************************************)
(* Calls of get_normals: any list of at most NumElements elements of the    *)
(* grid, any multipliers of +1 and -1.                                      *)
(***************************************************************************)
ElementLists ==
    UNION {[Range0(m) -> Range0(NumElements)] : m \in 1 .. NumElements}
InitNormals ==
    /\ NoAssembly
    /\ \E g \in Grids(0) \cup Grids(1), k \in 1 .. NumQuadPoints, l \in ElementLists,
          mu \in [Range0(NumElements) -> {1, -1}] :
          call = [grid_data |-> g, nrepetitions |-> k, elements |-> l, multipliers |-> mu]
    /\ returned = Pending

CallGetNormals ==
    /\ returned = Pending
    /\ returned' = Returned(get_normals(call.grid_data, call.nrepetitions,
                                         call.elements, call.multipliers))
    /\ UNCHANGED <<inputs, call, result, workers>>

NextNormals == CallGetNormals

SpecNormals == InitNormals /\ [][NextNormals]_vars

\* C14: get_normals returns a buffer of width k * m in which column
\* k * index + n, for every position index < m and every n < k, is the
\* stored normal of element elements[index] times the multiplier of that
\* element.
C14_RepeatedScaledNormals ==
    returned.status = "returned" =>
        /\ DOMAIN returned.value = Range0(call.nrepetitions * Len0(call.elements))
        /\ \A index \in DOMAIN call.elements, n \in Range0(call.nrepetitions) :
              returned.value[call.nrepetitions * index + n]
                  = [dim \in 0 .. 2 |->
                        call.grid_data.normals[call.elements[index]][dim]
                        * call.multipliers[call.elements[index]]]
\* get_normals has returned for several repetitions of a list that names
\* its elements out of order, with multipliers of both signs.
C14_Witness ==
    /\ returned.status = "returned"
    /\ call.nrepetitions > 1
    /\ Len0(call.elements) > 1
    /\ call.elements[0] > call.elements[1]
    /\ call.multipliers[call.elements[0]] # call.multipliers[call.elements[1]]

(***************************************************************************)
(* Calls of elements_adjacent on a connectivity table of two elements, each *)
(* a triple of distinct vertex indices.                                     *)
(***************************************************************************)
Vertices == 0 .. MaxVertex
Triples ==
    {t \in [0 .. 2 -> Vertices] : t[0] # t[1] /\ t[0] # t[2] /\ t[1] # t[2]}
InitAdjacent ==
    /\ NoAssembly
    /\ \E a, b \in Triples : \E index1, index2 \in 0 .. 1 :
          call = [elements |-> [k \in 0 .. 2 |-> [e \in 0 .. 1 |->
                                   IF e = 0 THEN a[k] ELSE b[k]]],
                  index1 |-> index1, index2 |-> index2]
    /\ returned = Pending

CallElementsAdjacent ==
    /\ returned = Pending
    /\ returned' = Returned(elements_adjacent(call.elements, call.index1, call.index2))
    /\ UNCHANGED <<inputs, call, result, workers>>

NextAdjacent == CallElementsAdjacent

SpecAdjacent == InitAdjacent /\ [][NextAdjacent]_vars

\* The number of vertex indices the two elements of the call have in common.
SharedVertices ==
    Cardinality(VertexSet(call.elements, call.index1)
                \cap VertexSet(call.elements, call.index2))

\* C4: elements_adjacent returns true if and only if the two vertex index
\* triples have at least one index in common, at whatever position.
C4_AdjacentIffSharedVertex ==
    returned.status = "returned" => (returned.value <=> SharedVertices >= 1)
\* true is returned for two elements whose only common vertex is the last
\* of the one and the first of the other.
C4_Witness ==
    /\ returned.status = "returned" /\ returned.value
    /\ SharedVertices = 1
    /\ call.elements[2][call.index1] = call.elements[0][call.index2]

(***************************************************************************)
(* Properties of the regular drivers.                                       *)
(***************************************************************************)
\* The pair (iteration i, trial position) is one the claim says is skipped.
SharedVertexPair(i, trial_element_index) ==
    /\ grids_identical
    /\ VertexSet(test_grid_data.elements, test_elements[i])
         \cap VertexSet(test_grid_data.elements, trial_elements[trial_element_index]) # {}
ZeroBlock(i, trial_element_index) ==
    \A c \in Range0(NumCells) :
        TrialIndexAt(c) = trial_element_index => Contribution(i, c) = Zero

\* result holds a kernel evaluation of a point of test element a against a
\* point of trial element b.
PairInResult(a, b) ==
    \E cell \in DOMAIN result : \E s \in DOMAIN result[cell] :
        s.x.element = a /\ s.y.element = b

\* C1: in default_scalar_regular_kernel and laplace_hypersingular_regular a
\* (test element, trial element) pair is skipped, and adds nothing to result,
\* if and only if grids_identical is true and the two elements share a vertex
\* index; with grids_identical false no pair is skipped.  (A pair that is not
\* skipped adds a non-zero amount in default_scalar_regular_kernel.)
C1_SkippedIffSharedVertex ==
    \A i \in DOMAIN pc : pc[i] = "done" =>
        \A t \in Range0(n_trial_elements) :
            /\ is_adjacent[i][t] <=> SharedVertexPair(i, t)
            /\ SharedVertexPair(i, t)
                    => /\ ZeroBlock(i, t)
                       /\ ~PairInResult(test_elements[i], trial_elements[t])
            /\ (assembly_type = "default_scalar" /\ ~SharedVertexPair(i, t))
                    => /\ ~ZeroBlock(i, t)
                       /\ PairInResult(test_elements[i], trial_elements[t])
\* An iteration has finished, having skipped a pair of two different elements
\* that share a vertex, and result holds nothing of the pair.
C1_Witness ==
    \E i \in DOMAIN pc : \E t \in Range0(n_trial_elements) :
        /\ pc[i] = "done"
        /\ test_elements[i] # trial_elements[t]
        /\ is_adjacent[i][t] /\ ZeroBlock(i, t)
        /\ ~PairInResult(test_elements[i], trial_elements[t])

AllDone == \A i \in DOMAIN pc : pc[i] = "done"
\* The sum of what the iterations add to a cell of result.
SumOfContributions(cell) ==
    Sum([i \in Range0(n_test_elements) |->
        Sum([c \in Range0(NumCells) |->
            IF TargetCell(i, c) = cell THEN Contribution(i, c) ELSE Zero])])

\* C2: when all iterations of default_scalar_regular_kernel have finished,
\* every cell of result holds the sum of all contributions made to it, under
\* every interleaving of the iterations.
C2_NoLostContribution ==
    AllDone => \A cell \in DOMAIN result : result[cell] = SumOfContributions(cell)

\* C3: no two distinct iterations of the parallel loop access the same cell
\* of result at the same time, one of them between its read and its write of
\* the cell.
C3_NoDataRace ==
    \A i, j \in DOMAIN pc :
        (i # j /\ pc[i] = "store" /\ pc[j] \in {"load", "store"})
            => TargetCell(i, cursor[i]) # TargetCell(j, cursor[j])

CommonVertices(a, b) ==
    VertexSet(test_grid_data.elements, a) \cap VertexSet(test_grid_data.elements, b)
\* C12: on the octahedron, assembled against itself with grids_identical
\* true, no pair of elements with a common vertex index (the 8 self pairs,
\* the edge-adjacent pairs) ever has a kernel evaluation in result; when the
\* assembly has finished the pairs that have one are exactly the pairs with
\* no common vertex index.
C12_OnlyDisjointPairsContribute ==
    \A a, b \in Range0(Len0(test_elements)) :
        /\ PairInResult(a, b) => CommonVertices(a, b) = {}
        /\ (AllDone /\ CommonVertices(a, b) = {}) => PairInResult(a, b)
\* The assembly on the octahedron has finished: an edge-adjacent pair has
\* left nothing in result and a pair of opposite faces has.
C12_Witness ==
    /\ test_grid_data = Octahedron
    /\ AllDone
    /\ \E a, b \in Range0(OctahedronElements) :
          Cardinality(CommonVertices(a, b)) = 2 /\ ~PairInResult(a, b)
    /\ \E a, b \in Range0(OctahedronElements) :
          CommonVertices(a, b) = {} /\ PairInResult(a, b)

(***************************************************************************)
(* The singular drivers: what a work item is to leave in its cells.         *)
(***************************************************************************)
ItemPoint(element, x) == local2global(test_grid_data, element, One(x))[0]
ItemNormal(element, multipliers) ==
    [d \in 0 .. 2 |-> test_grid_data.normals[element][d] * multipliers[element]]
\* The kernel at point p of the slices of work item index.
ItemKernel(index, p) ==
    K(ItemPoint(test_elements[index], test_points[test_offsets[index] + p]),
      ItemPoint(trial_elements[index], trial_points[trial_offsets[index] + p]),
      ItemNormal(test_elements[index], test_normal_multipliers),
      ItemNormal(trial_elements[index], trial_normal_multipliers))
ItemIntegrationElements(index) ==
    test_grid_data.integration_elements[test_elements[index]]
    * test_grid_data.integration_elements[trial_elements[index]]
\* The weighted sum over the points of the item, times the two integration elements.
ItemValue(index, test_basis, trial_basis) ==
    Scale(ItemIntegrationElements(index),
          Sum([p \in Range0(number_of_quad_points[index]) |->
                 Scale(quad_weights[weights_offsets[index] + p]
                         * ShapeValue(test_shapeset, test_basis,
                                      test_points[test_offsets[index] + p])
                         * ShapeValue(trial_shapeset, trial_basis,
                                      trial_points[trial_offsets[index] + p]),
                       ItemKernel(index, p))]))
\* The same for the hypersingular driver: the weighted sum of the kernel
\* values times the integration elements and the product of the curls.
HypersingularItemValue(index, test_basis, trial_basis) ==
    Scale(ItemIntegrationElements(index)
            * surface_curl_products(index)[test_basis][trial_basis],
          Sum([p \in Range0(number_of_quad_points[index]) |->
                 Scale(quad_weights[weights_offsets[index] + p], ItemKernel(index, p))]))
SliceSize == nshape_test * nshape_trial

\* C5: in both singular drivers a cell of result is written by the work item
\* whose slice it is in and by no other: it is untouched until that item
\* starts and, once that item has finished, holds the value of that item
\* alone, whatever the other iterations do and also when they name the same
\* elements; so every interleaving ends in the same result.
C5_DisjointSlices ==
    \A cell \in DOMAIN result :
        LET owner == cell \div SliceSize
            test_basis == (cell % SliceSize) \div nshape_trial
            trial_basis == cell % nshape_trial
        IN  /\ pc[owner] = "start" => result[cell] = Zero
            /\ pc[owner] = "done" =>
                  result[cell] = IF assembly_type = "default_scalar"
                                 THEN ItemValue(owner, test_basis, trial_basis)
                                 ELSE HypersingularItemValue(owner, test_basis, trial_basis)
\* Every iteration has finished in a call with two work items on the same
\* pair of elements, and has left something in result.
C5_Witness ==
    /\ number_of_quad_points # <<>>
    /\ AllDone
    /\ test_elements[0] = test_elements[1] /\ trial_elements[0] = trial_elements[1]
    /\ \A index \in DOMAIN pc :
          \E cell \in DOMAIN result : cell \div SliceSize = index /\ result[cell] # Zero

ZeroInitialised == \A cell \in DOMAIN call.result : call.result[cell] = Zero
\* C6: for a result that was zero when the call began, a finished work item
\* of default_scalar_singular_kernel has left in cell
\* nshape_test*nshape_trial*index + test_basis*nshape_trial + trial_basis the
\* sum over the points p of its slices of kernel * quad_weights[weights_offset
\* + p] * test shape * trial shape, times the integration elements of its
\* test and trial element; nothing outside its slices enters the value.
C6_SingularCellValue ==
    (assembly_type = "default_scalar" /\ ZeroInitialised) =>
        \A index \in DOMAIN pc :
            pc[index] = "done" =>
                \A test_basis \in Range0(nshape_test), trial_basis \in Range0(nshape_trial) :
                    result[SliceSize * index + test_basis * nshape_trial + trial_basis]
                        = ItemValue(index, test_basis, trial_basis)
\* A work item of several points, whose weights lie at another offset than
\* its test points, has finished on a zero result for two P1 spaces and has
\* left something in its slice.
C6_Witness ==
    /\ number_of_quad_points # <<>>
    /\ assembly_type = "default_scalar" /\ ZeroInitialised
    /\ nshape_test = 3 /\ nshape_trial = 3
    /\ \E index \in DOMAIN pc :
          /\ pc[index] = "done"
          /\ number_of_quad_points[index] > 1
          /\ weights_offsets[index] # test_offsets[index]
          /\ \E cell \in DOMAIN result :
                cell \div SliceSize = index /\ result[cell] # Zero

(***************************************************************************)
(* The sparse driver: the local Gram matrix of an element position.         *)
(***************************************************************************)
IntSum(a) ==
    LET S[n \in 0 .. Len0(a)] == IF n = 0 THEN 0 ELSE S[n - 1] + a[n - 1]
    IN  S[Len0(a)]
GramValue(element_index, i, j) ==
    IntSum([dim \in Range0(Dimension(test_shapeset)) |->
        IntSum([q \in DOMAIN quad_points |->
            ShapeComponent(test_shapeset, dim, i, quad_points[q])
            * ShapeComponent(trial_shapeset, dim, j, quad_points[q])
            * quad_weights[q]
            * test_grid_data.integration_elements[test_elements[element_index]]])])

\* C7: default_sparse_kernel with l2_identity_kernel adds to cell
\* nshape_test*nshape_trial*element_index + i*nshape_trial + j the sum over
\* dim and q of test_shape[dim,i,q] * trial_shape[dim,j,q] * weight[q] *
\* integration_element[elements[element_index]], once the iteration of
\* element_index has finished; until that iteration starts the cell is as
\* it was handed in, so no other element position writes it.
C7_GramAddedToOwnSlice ==
    assembly_type = "default_sparse" =>
        \A cell \in DOMAIN result :
            LET owner == cell \div SliceSize
                i == (cell % SliceSize) \div nshape_trial
                j == cell % nshape_trial
            IN  /\ pc[owner] = "start" => result[cell] = call.result[cell]
                /\ pc[owner] = "done" =>
                      result[cell] = call.result[cell] + GramValue(owner, i, j)
\* Every iteration has finished for a vector-valued shape set, with an
\* elements argument that is not the identity, on a result that was not
\* zero, and every element position has changed a cell of its slice.
C7_Witness ==
    /\ assembly_type = "default_sparse"
    /\ AllDone
    /\ test_shapeset = "rwg"
    /\ test_elements[0] # 0
    /\ \A element_index \in DOMAIN pc :
          \E cell \in DOMAIN result :
              /\ cell \div SliceSize = element_index
              /\ call.result[cell] # 0
              /\ result[cell] # call.result[cell]

\* Entry (i, j) of the local matrix the call has assembled: what it added
\* to cell i * nshape_trial + j.
LocalMatrix(i, j) ==
    result[i * nshape_trial + j] - call.result[i * nshape_trial + j]
RowSum(i) == IntSum([j \in Range0(nshape_trial) |-> LocalMatrix(i, j)])
\* C13: the local matrix assembled on the reference triangle with the
\* piecewise linear shape functions on both sides is symmetric, and each of
\* its row sums is the same: a third of the sum of the weights times the
\* integration element (twice the area of the triangle).
C13_MassMatrix ==
    (test_grid_data = reference_triangle /\ AllDone) =>
        /\ \A i, j \in Range0(3) : LocalMatrix(i, j) = LocalMatrix(j, i)
        /\ \A i \in Range0(3) :
              3 * RowSum(i) = IntSum(quad_weights) * test_grid_data.integration_elements[0]
\* The assembly on the reference triangle has finished with a rule of more
\* than three points on a buffer that was not zero, and the matrix is not zero.
C13_Witness ==
    /\ test_grid_data = reference_triangle /\ AllDone
    /\ Len0(quad_weights) > 3
    /\ call.result[0] # 0
    /\ \A i \in Range0(3) : RowSum(i) > 0

(***************************************************************************)
(* select_numba_kernels.  A dictionary is a record; a lookup of a key that  *)
(* is not in it raises KeyError.  The functions are named, not called.      *)
(***************************************************************************)
assembly_functions_singular ==
    [default_scalar |-> "default_scalar_singular_kernel",
     laplace_hypersingular |-> "laplace_hypersingular_singular"]
assembly_functions_regular ==
    [default_scalar |-> "default_scalar_regular_kernel",
     laplace_hypersingular |-> "laplace_hypersingular_regular"]
assembly_functions_sparse == [default_sparse |-> "default_sparse_kernel"]
kernel_functions_regular ==
    [laplace_single_layer |-> "laplace_single_layer_regular",
     laplace_double_layer |-> "laplace_double_layer_regular",
     laplace_adjoint_double_layer |-> "laplace_adjoint_double_layer_regular",
     helmholtz_single_layer |-> "helmholtz_single_layer_regular"]
kernel_functions_singular ==
    [laplace_single_layer |-> "laplace_single_layer_singular",
     laplace_double_layer |-> "laplace_double_layer_singular",
     laplace_adjoint_double_layer |-> "laplace_adjoint_double_layer_singular",
     helmholtz_single_layer |-> "helmholtz_single_layer_singular"]
kernel_functions_sparse == [l2_identity |-> "l2_identity_kernel"]

\* The tuple (assembly[a], kernel[k]): the first failing lookup raises.
Lookup(assembly, kernel, a, k) ==
    IF a \notin DOMAIN assembly \/ k \notin DOMAIN kernel
    THEN Raised("KeyError")
    ELSE Returned(<<assembly[a], kernel[k]>>)

\* A variant that takes every mode it does not know for "regular".
select_numba_kernels_lenient(operator_descriptor, mode) ==
    CASE mode = "singular" ->
            Lookup(assembly_functions_singular, kernel_functions_singular,
                   operator_descriptor.assembly_type, operator_descriptor.kernel_type)
      [] mode = "sparse" ->
            Lookup(assembly_functions_sparse, kernel_functions_sparse,
                   operator_descriptor.assembly_type, operator_descriptor.kernel_type)
      [] OTHER ->
            Lookup(assembly_functions_regular, kernel_functions_regular,
                   operator_descriptor.assembly_type, operator_descriptor.kernel_type)

select_numba_kernels(operator_descriptor, mode) ==
    CASE mode = "regular" ->
            Lookup(assembly_functions_regular, kernel_functions_regular,
                   operator_descriptor.assembly_type, operator_descriptor.kernel_type)
      [] mode = "singular" ->
            Lookup(assembly_functions_singular, kernel_functions_singular,
                   operator_descriptor.assembly_type, operator_descriptor.kernel_type)
      [] mode = "sparse" ->
            Lookup(assembly_functions_sparse, kernel_functions_sparse,
                   operator_descriptor.assembly_type, operator_descriptor.kernel_type)
      [] OTHER -> Raised("ValueError")

AssemblyTypes == {"default_scalar", "laplace_hypersingular", "default_sparse", "helmholtz_hypersingular"}
KernelTypes ==
    {"laplace_single_layer", "laplace_double_layer", "laplace_adjoint_double_layer",
     "helmholtz_single_layer", "l2_identity", "modified_helmholtz_single_layer"}
Modes == {"regular", "singular", "sparse", "potential", "dense"}

InitSelect ==
    /\ NoAssembly
    /\ \E a \in AssemblyTypes, k \in KernelTypes, m \in Modes :
          call = [operator_descriptor |-> [assembly_type |-> a, kernel_type |-> k],
                  mode |-> m]
    /\ returned = Pending

CallSelect ==
    /\ returned = Pending
    /\ returned' = select_numba_kernels(call.operator_descriptor, call.mode)
    /\ UNCHANGED <<inputs, call, result, workers>>

NextSelect == CallSelect

SpecSelect == InitSelect /\ [][NextSelect]_vars

\* The kinds of each mode, as the spec lists them.
KnownAssembly(mode) ==
    CASE mode = "sparse" -> {"default_sparse"}
      [] mode \in {"regular", "singular"} -> {"default_scalar", "laplace_hypersingular"}
      [] OTHER -> {}
KnownKernel(mode) ==
    CASE mode = "sparse" -> {"l2_identity"}
      [] mode \in {"regular", "singular"} ->
            {"laplace_single_layer", "laplace_double_layer",
             "laplace_adjoint_double_layer", "helmholtz_single_layer"}
      [] OTHER -> {}
UnknownKind ==
    \/ call.mode \notin {"regular", "singular", "sparse"}
    \/ call.operator_descriptor.assembly_type \notin KnownAssembly(call.mode)
    \/ call.operator_descriptor.kernel_type \notin KnownKernel(call.mode)

\* C8: select_numba_kernels raises, and returns no pair, for every descriptor
\* with a kind that is not one of the requested mode and for every unknown
\* mode; no assembly driver has run and no result buffer exists when it does.
C8_UnknownKindRaises ==
    (returned.status # "pending" /\ UnknownKind) =>
        /\ returned.status = "raised"
        /\ returned.error \in {"KeyError", "ValueError"}
        /\ pc = <<>> /\ result = <<>>
\* The selection has raised for a known descriptor asked in an unknown mode.
C8_Witness ==
    /\ returned.status = "raised"
    /\ call.mode \notin {"regular", "singular", "sparse"}
    /\ call.operator_descriptor.assembly_type = "default_scalar"
    /\ call.operator_descriptor.kernel_type = "laplace_single_layer"

(***************************************************************************)
(* The Laplace kernels on points with integer coordinates.  A value is the  *)
(* exact real  num * M_INV_4PI / sqrt(dist2)^power , kept as the record of  *)
(* its three integers; dist2 = 0 is a division by zero (inf or nan).        *)
(***************************************************************************)
Real(num, dist2, power) == [num |-> num, dist2 |-> dist2, power |-> power]
Neg(v) == Real(-v.num, v.dist2, v.power)
Pow(b, n) == IF n = 1 THEN b ELSE b * b * b
Sign(n) == IF n > 0 THEN 1 ELSE IF n < 0 THEN -1 ELSE 0
\* Equality of two finite values: same sign and same square.
RealEq(v, w) ==
    /\ v.dist2 > 0 /\ w.dist2 > 0
    /\ Sign(v.num) = Sign(w.num)
    /\ v.num * v.num * Pow(w.dist2, w.power) = w.num * w.num * Pow(v.dist2, v.power)

Shape1(points) == Len0(points[0])
Diff(test_point, trial_point_values) ==
    [i \in 0 .. 2 |-> [j \in Range0(Shape1(trial_point_values)) |->
        trial_point_values[i][j] - test_point[i]]]
Dist2(diff, j) == diff[0][j] * diff[0][j] + diff[1][j] * diff[1][j] + diff[2][j] * diff[2][j]

laplace_single_layer_regular(test_point, trial_point_values, test_normal, trial_normal_values, kernel_parameter_values) ==
    LET diff == Diff(test_point, trial_point_values)
    IN  [j \in Range0(Shape1(trial_point_values)) |-> Real(1, Dist2(diff, j), 1)]

\* A variant without the minus sign of the last loop.
laplace_double_layer_regular_unsigned(test_point, trial_point_values, test_normal, trial_normal_values, kernel_parameter_values) ==
    LET diff == Diff(test_point, trial_point_values)
        output == [j \in Range0(Shape1(trial_point_values)) |->
                     diff[0][j] * trial_normal_values[0][j]
                     + diff[1][j] * trial_normal_values[1][j]
                     + diff[2][j] * trial_normal_values[2][j]]
    IN  [j \in Range0(Shape1(trial_point_values)) |-> Real(output[j], Dist2(diff, j), 3)]

laplace_double_layer_regular(test_point, trial_point_values, test_normal, trial_normal_values, kernel_parameter_values) ==
    LET diff == Diff(test_point, trial_point_values)
        output == [j \in Range0(Shape1(trial_point_values)) |->
                     diff[0][j] * trial_normal_values[0][j]
                     + diff[1][j] * trial_normal_values[1][j]
                     + diff[2][j] * trial_normal_values[2][j]]
    IN  [j \in Range0(Shape1(trial_point_values)) |-> Real(output[j] * (-1), Dist2(diff, j), 3)]

laplace_adjoint_double_layer_regular(test_point, trial_point_values, test_normal, trial_normal_values, kernel_parameter_values) ==
    LET diff == Diff(test_point, trial_point_values)
        output == [j \in Range0(Shape1(trial_point_values)) |->
                     diff[0][j] * test_normal[0]
                     + diff[1][j] * test_normal[1]
                     + diff[2][j] * test_normal[2]]
    IN  [j \in Range0(Shape1(trial_point_values)) |-> Real(output[j], Dist2(diff, j), 3)]

Coordinates == {0, 1}
Points == [0 .. 2 -> Coordinates]
Normals == {Axis(0), [d \in 0 .. 2 |-> -Axis(2)[d]]}
PointArrays == [0 .. 2 -> [Range0(NumQuadPoints) -> Coordinates]]
NormalArrays ==
    {[i \in 0 .. 2 |-> [j \in Range0(NumQuadPoints) |-> n[j][i]]] :
        n \in [Range0(NumQuadPoints) -> Normals]}
RegularKernels ==
    {"laplace_single_layer_regular", "laplace_double_layer_regular",
     "laplace_adjoint_double_layer_regular"}

InitKernel ==
    /\ NoAssembly
    /\ \E f \in RegularKernels, x \in Points, y \in PointArrays,
          nx \in Normals, ny \in NormalArrays :
          call = [kernel |-> f, test_point |-> x, trial_points |-> y,
                  test_normal |-> nx, trial_normals |-> ny, kernel_parameters |-> <<>>]
    /\ returned = Pending

CallSingleLayer ==
    /\ returned = Pending
    /\ call.kernel = "laplace_single_layer_regular"
    /\ returned' = Returned(laplace_single_layer_regular(
            call.test_point, call.trial_points, call.test_normal, call.trial_normals,
            call.kernel_parameters))
    /\ UNCHANGED <<inputs, call, result, workers>>

CallDoubleLayer ==
    /\ returned = Pending
    /\ call.kernel = "laplace_double_layer_regular"
    /\ returned' = Returned(laplace_double_layer_regular(
            call.test_point, call.trial_points, call.test_normal, call.trial_normals,
            call.kernel_parameters))
    /\ UNCHANGED <<inputs, call, result, workers>>

CallAdjointDoubleLayer ==
    /\ returned = Pending
    /\ call.kernel = "laplace_adjoint_double_layer_regular"
    /\ returned' = Returned(laplace_adjoint_double_layer_regular(
            call.test_point, call.trial_points, call.test_normal, call.trial_normals,
            call.kernel_parameters))
    /\ UNCHANGED <<inputs, call, result, workers>>

NextKernel ==
    \/ CallSingleLayer
    \/ CallDoubleLayer
    \/ CallAdjointDoubleLayer

SpecKernel == InitKernel /\ [][NextKernel]_vars

\* Column j of a 3 x n array, and a point as a 3 x 1 array.
Column(a, j) == [i \in 0 .. 2 |-> a[i][j]]
AsArray(x) == [i \in 0 .. 2 |-> [j \in {0} |-> x[i]]]
\* The adjoint double layer kernel with the points swapped and the trial
\* normal of column j taken as the test normal.
SwappedAdjoint(j) ==
    laplace_adjoint_double_layer_regular(
        Column(call.trial_points, j), AsArray(call.test_point),
        Column(call.trial_normals, j), AsArray(call.test_normal),
        call.kernel_parameters)[0]
DoubleLayerReturned ==
    call.kernel = "laplace_double_layer_regular" /\ returned.status = "returned"
Distinct(j) == Column(call.trial_points, j) # call.test_point

\* C10 (as stated): the double layer kernel at test point x, trial point y
\* and trial normal n is the negative of the adjoint double layer kernel at
\* test point y, trial point x and test normal n, for distinct x and y.
C10_NegativeOfSwappedAdjoint ==
    DoubleLayerReturned =>
        \A j \in DOMAIN returned.value :
            Distinct(j) => RealEq(returned.value[j], Neg(SwappedAdjoint(j)))
\* C10 (amended): the double layer kernel at test point x, trial point y and
\* trial normal n is equal to the adjoint double layer kernel at test point
\* y, trial point x and test normal n, for distinct x and y.
C10_EqualsSwappedAdjoint ==
    DoubleLayerReturned =>
        \A j \in DOMAIN returned.value :
            Distinct(j) => RealEq(returned.value[j], SwappedAdjoint(j))
\* A double layer value that is not zero has been returned for distinct points.
C10_Witness ==
    /\ DoubleLayerReturned
    /\ \E j \in DOMAIN returned.value : Distinct(j) /\ returned.value[j].num # 0

(***************************************************************************)
(* The singular (parallel arrays) kernels and the Helmholtz kernels.  A     *)
(* Helmholtz value is kept as what it is computed from: cos or sin of       *)
(* wavenumber_real * sqrt(dist2), times M_INV_4PI / sqrt(dist2), times      *)
(* exp(-decay * sqrt(dist2)); decay 0 stands for no such factor.            *)
(***************************************************************************)
DiffSingular(test_point_values, trial_point_values) ==
    [i \in 0 .. 2 |-> [j \in Range0(Shape1(trial_point_values)) |->
        trial_point_values[i][j] - test_point_values[i][j]]]

laplace_single_layer_singular(test_point_values, trial_point_values, test_normal_values, trial_normal_values, kernel_parameter_values) ==
    LET diff == DiffSingular(test_point_values, trial_point_values)
    IN  [j \in Range0(Shape1(trial_point_values)) |-> Real(1, Dist2(diff, j), 1)]

\* A variant that takes the first test point for every position.
laplace_double_layer_singular_first(test_point_values, trial_point_values, test_normal_values, trial_normal_values, kernel_parameter_values) ==
    LET diff == [i \in 0 .. 2 |-> [j \in Range0(Shape1(trial_point_values)) |->
                    trial_point_values[i][j] - test_point_values[i][0]]]
        output == [j \in Range0(Shape1(trial_point_values)) |->
                     diff[0][j] * trial_normal_values[0][j]
                     + diff[1][j] * trial_normal_values[1][j]
                     + diff[2][j] * trial_normal_values[2][j]]
    IN  [j \in Range0(Shape1(trial_point_values)) |-> Real(output[j] * (-1), Dist2(diff, j), 3)]

laplace_double_layer_singular(test_point_values, trial_point_values, test_normal_values, trial_normal_values, kernel_parameter_values) ==
    LET diff == DiffSingular(test_point_values, trial_point_values)
        output == [j \in Range0(Shape1(trial_point_values)) |->
                     diff[0][j] * trial_normal_values[0][j]
                     + diff[1][j] * trial_normal_values[1][j]
                     + diff[2][j] * trial_normal_values[2][j]]
    IN  [j \in Range0(Shape1(trial_point_values)) |-> Real(output[j] * (-1), Dist2(diff, j), 3)]

laplace_adjoint_double_layer_singular(test_point_values, trial_point_values, test_normal_values, trial_normal_values, kernel_parameter_values) ==
    LET diff == DiffSingular(test_point_values, trial_point_values)
        output == [j \in Range0(Shape1(trial_point_values)) |->
                     diff[0][j] * test_normal_values[0][j]
                     + diff[1][j] * test_normal_values[1][j]
                     + diff[2][j] * test_normal_values[2][j]]
    IN  [j \in Range0(Shape1(trial_point_values)) |-> Real(output[j], Dist2(diff, j), 3)]

Wave(fn, wavenumber_real, dist2) ==
    [fn |-> fn, wavenumber_real |-> wavenumber_real, dist2 |-> dist2, decay |-> 0]
Damped(v, wavenumber_imag) == [v EXCEPT !.decay = wavenumber_imag]
HelmholtzOutput(rad2, kernel_parameter_values) ==
    LET wavenumber_real == kernel_parameter_values[0]
        wavenumber_imag == kernel_parameter_values[1]
        output_real == [j \in DOMAIN rad2 |-> Wave("cos", wavenumber_real, rad2[j])]
        output_imag == [j \in DOMAIN rad2 |-> Wave("sin", wavenumber_real, rad2[j])]
    IN  [j \in DOMAIN rad2 |->
            IF wavenumber_imag # 0
            THEN [real |-> Damped(output_real[j], wavenumber_imag),
                  imag |-> Damped(output_imag[j], wavenumber_imag)]
            ELSE [real |-> output_real[j], imag |-> output_imag[j]]]

helmholtz_single_layer_regular(test_point, trial_point_values, test_normal, trial_normal_values, kernel_parameter_values) ==
    LET diff == Diff(test_point, trial_point_values)
    IN  HelmholtzOutput([j \in Range0(Shape1(trial_point_values)) |-> Dist2(diff, j)],
                        kernel_parameter_values)

helmholtz_single_layer_singular(test_point_values, trial_point_values, test_normal_values, trial_normal_values, kernel_parameter_values) ==
    LET diff == DiffSingular(test_point_values, trial_point_values)
    IN  HelmholtzOutput([j \in Range0(Shape1(trial_point_values)) |-> Dist2(diff, j)],
                        kernel_parameter_values)

\* The calls of the singular kernels that the model explores: the columns
\* of the point arrays are taken from three points each.
TestColumns == {Axis(0), Axis(1), [d \in 0 .. 2 |-> 1]}
TrialColumns == {Axis(0), Axis(2), [d \in 0 .. 2 |-> 0]}
Columns(n, points) ==
    {[i \in 0 .. 2 |-> [j \in Range0(n) |-> c[j][i]]] : c \in [Range0(n) -> points]}
Wavenumbers == {Array(<<1, 0>>), Array(<<2, 1>>)}
SingularKernels ==
    {"laplace_single_layer_singular", "laplace_double_layer_singular",
     "laplace_adjoint_double_layer_singular", "helmholtz_single_layer_singular"}

InitSingularKernel ==
    /\ NoAssembly
    /\ \E f \in SingularKernels,
          x \in Columns(NumQuadPoints, TestColumns), y \in Columns(NumQuadPoints, TrialColumns),
          nx \in NormalArrays, ny \in NormalArrays :
        \E k \in (IF f = "helmholtz_single_layer_singular" THEN Wavenumbers ELSE {<<>>}) :
          call = [kernel |-> f, test_points |-> x, trial_points |-> y,
                  test_normals |-> nx, trial_normals |-> ny, kernel_parameters |-> k]
    /\ returned = Pending

CallSingleLayerSingular ==
    /\ returned = Pending
    /\ call.kernel = "laplace_single_layer_singular"
    /\ returned' = Returned(laplace_single_layer_singular(
            call.test_points, call.trial_points, call.test_normals, call.trial_normals,
            call.kernel_parameters))
    /\ UNCHANGED <<inputs, call, result, workers>>

CallDoubleLayerSingular ==
    /\ returned = Pending
    /\ call.kernel = "laplace_double_layer_singular"
    /\ returned' = Returned(laplace_double_layer_singular(
            call.test_points, call.trial_points, call.test_normals, call.trial_normals,
            call.kernel_parameters))
    /\ UNCHANGED <<inputs, call, result, workers>>

CallAdjointDoubleLayerSingular ==
    /\ returned = Pending
    /\ call.kernel = "laplace_adjoint_double_layer_singular"
    /\ returned' = Returned(laplace_adjoint_double_layer_singular(
            call.test_points, call.trial_points, call.test_normals, call.trial_normals,
            call.kernel_parameters))
    /\ UNCHANGED <<inputs, call, result, workers>>

CallHelmholtzSingular ==
    /\ returned = Pending
    /\ call.kernel = "helmholtz_single_layer_singular"
    /\ returned' = Returned(helmholtz_single_layer_singular(
            call.test_points, call.trial_points, call.test_normals, call.trial_normals,
            call.kernel_parameters))
    /\ UNCHANGED <<inputs, call, result, workers>>

NextSingularKernel ==
    \/ CallSingleLayerSingular
    \/ CallDoubleLayerSingular
    \/ CallAdjointDoubleLayerSingular
    \/ CallHelmholtzSingular

SpecSingularKernel == InitSingularKernel /\ [][NextSingularKernel]_vars

\* What the regular kernel of the same kind returns for test point j against
\* trial point j alone, with the normals of position j.
RegularAt(j) ==
    LET x == Column(call.test_points, j)
        y == AsArray(Column(call.trial_points, j))
        nx == Column(call.test_normals, j)
        ny == AsArray(Column(call.trial_normals, j))
        k == call.kernel_parameters
    IN  CASE call.kernel = "laplace_single_layer_singular" ->
                laplace_single_layer_regular(x, y, nx, ny, k)[0]
          [] call.kernel = "laplace_double_layer_singular" ->
                laplace_double_layer_regular(x, y, nx, ny, k)[0]
          [] call.kernel = "laplace_adjoint_double_layer_singular" ->
                laplace_adjoint_double_layer_regular(x, y, nx, ny, k)[0]
          [] call.kernel = "helmholtz_single_layer_singular" ->
                helmholtz_single_layer_regular(x, y, nx, ny, k)[0]
SingularReturned == call.kernel \in SingularKernels /\ returned.status = "returned"

\* C11: for each kernel kind the singular evaluator returns at every
\* position j, where test point j differs from trial point j, the value the
\* regular evaluator of that kind returns for test point j against trial
\* point j with the normals of position j.
C11_SingularAgreesWithRegular ==
    SingularReturned =>
        \A j \in DOMAIN returned.value :
            Column(call.test_points, j) # Column(call.trial_points, j) =>
                returned.value[j] = RegularAt(j)
\* A double layer value that is not zero has been returned at the last
\* position of a call whose test points differ from one another.
C11_Witness ==
    /\ SingularReturned
    /\ call.kernel = "laplace_double_layer_singular"
    /\ Column(call.test_points, 0) # Column(call.test_points, NumQuadPoints - 1)
    /\ Column(call.test_points, NumQuadPoints - 1) # Column(call.trial_points, NumQuadPoints - 1)
    /\ returned.value[NumQuadPoints - 1].num # 0

(***************************************************************************)
(* The regular driver: the layout of its flat buffers and what a pair of    *)
(* elements adds to result.                                                 *)
(***************************************************************************)
\* Test quadrature point p of iteration i and trial quadrature point q of
\* the trial element at position e, and the kernel symbol of the two.
TestPoint(i, p) == local2global(test_grid_data, test_elements[i], quad_points)[p]
TrialPoint(e, q) == local2global(trial_grid_data, trial_elements[e], quad_points)[q]
TrialNormal(e) ==
    [d \in 0 .. 2 |-> trial_grid_data.normals[trial_elements[e]][d]
                        * trial_normal_multipliers[trial_elements[e]]]
PairSymbol(i, e, p, q) ==
    [x |-> TestPoint(i, p), y |-> TrialPoint(e, q),
     nx |-> test_grid_data.normals[test_elements[i]], ny |-> TrialNormal(e)]
\* weight[p] * weight[q] * integration_element[t] * integration_element[s]
\* * test_shape[test_basis, p] * trial_shape[trial_basis, q].
PairWeight(i, e, test_basis, trial_basis, p, q) ==
    quad_weights[p] * quad_weights[q]
    * test_grid_data.integration_elements[test_elements[i]]
    * trial_grid_data.integration_elements[trial_elements[e]]
    * ShapeValue(test_shapeset, test_basis, quad_points[p])
    * ShapeValue(trial_shapeset, trial_basis, quad_points[q])
\* The weight with which the kernel symbol of (p, q) is to enter the pair
\* (two pairs of points with the same symbol add up).
SymbolWeight(i, e, test_basis, trial_basis, p, q) ==
    IntSum([c \in Range0(n_quad_points * n_quad_points) |->
        IF PairSymbol(i, e, c \div n_quad_points, c % n_quad_points) = PairSymbol(i, e, p, q)
        THEN PairWeight(i, e, test_basis, trial_basis, c \div n_quad_points, c % n_quad_points)
        ELSE 0])
RegularDriver ==
    assembly_type \in {"default_scalar", "laplace_hypersingular"} /\ number_of_quad_points = <<>>

\* C15: the buffer of get_global_points has len(elements) * npoints columns,
\* column npoints * index + p being the image of local point p in element
\* elements[index]; the regular driver pairs the kernel value of trial
\* position e and quadrature point q with the weight and the integration
\* element found at the same flat index e * n_quad_points + q.
C15_ElementMajorLayout ==
    RegularDriver =>
        /\ Len0(trial_global_points) = n_trial_elements * Len0(quad_points)
        /\ Len0(factors) = n_trial_elements * n_quad_points
        /\ \A e \in Range0(n_trial_elements), q \in Range0(n_quad_points) :
              /\ trial_global_points[Len0(quad_points) * e + q] = TrialPoint(e, q)
              /\ factors[e * n_quad_points + q]
                    = quad_weights[q]
                      * trial_grid_data.integration_elements[trial_elements[e]]
        /\ \A i \in DOMAIN pc :
              (assembly_type = "default_scalar" /\ pc[i] = "done") =>
                 \A e \in Range0(n_trial_elements) :
                    ~is_adjacent[i][e] =>
                       \A test_basis \in Range0(nshape_test), trial_basis \in Range0(nshape_trial) :
                          \A p, q \in Range0(n_quad_points) :
                             Coef(local_result[i][e][test_basis][trial_basis],
                                  PairSymbol(i, e, p, q))
                                = SymbolWeight(i, e, test_basis, trial_basis, p, q)
\* An iteration of default_scalar_regular_kernel has finished with several
\* trial elements of several quadrature points each, none at its own
\* position in trial_elements, and has not skipped the last of them.
C15_Witness ==
    /\ RegularDriver /\ assembly_type = "default_scalar"
    /\ n_trial_elements > 1 /\ n_quad_points > 1
    /\ trial_elements[0] # 0
    /\ \E i \in DOMAIN pc :
          /\ pc[i] = "done"
          /\ ~is_adjacent[i][n_trial_elements - 1]
          /\ local_result[i][n_trial_elements - 1][0][0] # Zero

\* The integral over the pair (iteration i, trial position e) for a pair of
\* basis functions, by both quadrature rules.
PairIntegral(i, e, test_basis, trial_basis) ==
    Sum([p \in Range0(n_quad_points) |->
        Sum([q \in Range0(n_quad_points) |->
            Term(PairWeight(i, e, test_basis, trial_basis, p, q), PairSymbol(i, e, p, q))])])
\* What the finished iterations are to have added to a cell of result.
AddedTo(cell) ==
    Sum([i \in Range0(n_test_elements) |->
      Sum([e \in Range0(n_trial_elements) |->
        Sum([test_basis \in Range0(nshape_test) |->
          Sum([trial_basis \in Range0(nshape_trial) |->
            IF /\ pc[i] = "done"
               /\ ~SharedVertexPair(i, e)
               /\ cell = <<test_global_dofs[test_elements[i]][test_basis],
                           trial_global_dofs[trial_elements[e]][trial_basis]>>
            THEN Scale(test_multipliers[test_elements[i]][test_basis]
                         * trial_multipliers[trial_elements[e]][trial_basis],
                       PairIntegral(i, e, test_basis, trial_basis))
            ELSE Zero])])])])

\* C18: in a sequential run of default_scalar_regular_kernel every cell of
\* result holds, for the iterations that have finished, the sum over the
\* test elements t, the trial elements s that are not skipped and the basis
\* pairs that map to the cell of test_multipliers[t, i] *
\* trial_multipliers[s, j] times the sum over the quadrature points p and q
\* of kernel * weight[p] * weight[q] * integration_element[t] *
\* integration_element[s] * test_shape[i, p] * trial_shape[j, q].
C18_ScatteredPairIntegrals ==
    (RegularDriver /\ assembly_type = "default_scalar") =>
        \A cell \in DOMAIN result : result[cell] = AddedTo(cell)
\* The run has finished on two different grids, and a cell of result holds
\* what two trial elements with a common degree of freedom have added.
C18_Witness ==
    /\ RegularDriver /\ assembly_type = "default_scalar"
    /\ AllDone /\ ~grids_identical
    /\ \E i \in DOMAIN pc : \E c1, c2 \in Range0(NumCells) :
          /\ TrialIndexAt(c1) # TrialIndexAt(c2)
          /\ TargetCell(i, c1) = TargetCell(i, c2)
          /\ Contribution(i, c1) # Zero /\ Contribution(i, c2) # Zero
          /\ result[TargetCell(i, c1)] # Zero

(***************************************************************************)
(* The two hypersingular drivers on the same pair of elements.              *)
(***************************************************************************)
\* The call is one of laplace_hypersingular_regular on one grid, so that the
\* pair at position index of test_elements and trial_elements is a pair of
\* elements of the grid that laplace_hypersingular_singular is called with.
HypersingularOnOneGrid ==
    RegularDriver /\ assembly_type = "laplace_hypersingular" /\ grids_identical

\* C19: for the same pair of elements, the same grid data and the same
\* multipliers the surface-curl product matrix of
\* laplace_hypersingular_singular equals the matrix curl_product of
\* laplace_hypersingular_regular.
C19_SameCurlProducts ==
    HypersingularOnOneGrid =>
        \A index \in Range0(n_test_elements) :
            index \in Range0(n_trial_elements) =>
                surface_curl_products(index) = curl_product(index, index)

(***************************************************************************)
(* default_scalar_singular_kernel on a buffer that is not zero on entry.    *)
(***************************************************************************)
\* The weighted sum over the points of work item index, before the scaling.
ItemSum(index, test_basis, trial_basis) ==
    Sum([p \in Range0(number_of_quad_points[index]) |->
           Scale(quad_weights[weights_offsets[index] + p]
                   * ShapeValue(test_shapeset, test_basis,
                                test_points[test_offsets[index] + p])
                   * ShapeValue(trial_shapeset, trial_basis,
                                trial_points[trial_offsets[index] + p]),
                 ItemKernel(index, p))])
ItemCell(index, test_basis, trial_basis) ==
    nshape_test * nshape_trial * index + test_basis * nshape_trial + trial_basis

\* C20: a finished work item of default_scalar_singular_kernel has left in
\* each of its cells (r0 + the weighted sum over its points) times the two
\* integration elements, r0 being the content of the cell on entry: with r0
\* not zero that is not the value of the item, and a second run of the item
\* on the buffer the first call has left does not give twice the value of
\* the first (the product of the integration elements not being 1).
C20_ScalesPriorContent ==
    (assembly_type = "default_scalar" /\ number_of_quad_points # <<>>) =>
        \A index \in DOMAIN pc :
            pc[index] = "done" =>
                \A test_basis \in Range0(nshape_test), trial_basis \in Range0(nshape_trial) :
                    LET cell == ItemCell(index, test_basis, trial_basis)
                        r0 == call.result[cell]
                    IN  /\ result[cell]
                              = Scale(ItemIntegrationElements(index),
                                      Add(r0, ItemSum(index, test_basis, trial_basis)))
                        /\ r0 # Zero =>
                              result[cell] # Add(r0, ItemValue(index, test_basis, trial_basis))
                        /\ r0 # Zero => result[cell] # ItemValue(index, test_basis, trial_basis)
                        /\ (r0 = Zero /\ result[cell] # Zero
                              /\ ItemIntegrationElements(index) # 1) =>
                              SingularRun(result, index)[cell] # Scale(2, result[cell])
\* A work item has finished on a buffer that was not zero on entry and has
\* left there the scaled sum of the prior content and of its own points;
\* another has finished on a zero buffer with a value that is not zero.
C20_Witness ==
    /\ assembly_type = "default_scalar" /\ number_of_quad_points # <<>>
    /\ \E index \in DOMAIN pc :
          /\ pc[index] = "done"
          /\ ItemSum(index, 0, 0) # Zero
          /\ call.result[ItemCell(index, 0, 0)] = Previous
          /\ Coef(result[ItemCell(index, 0, 0)], CHOOSE sym \in DOMAIN Previous : TRUE)
                = ItemIntegrationElements(index)

(***************************************************************************)
(* All five drivers: a call of any of them.  The iterations of the regular  *)
(* and of the singular drivers run one at a time, those of the sparse       *)
(* driver concurrently.  A call of a singular driver is one with work       *)
(* items.                                                                   *)
(***************************************************************************)
SingularDriver ==
    assembly_type \in {"default_scalar", "laplace_hypersingular"} /\ number_of_quad_points # <<>>
InitAssembly == InitRegularSeq \/ InitSingularSeq \/ InitSparse
NextAssembly ==
    \/ \E i \in DOMAIN pc : RegularDriver /\ RegularIteration(i)
    \/ \E i \in DOMAIN pc : RegularDriver /\ HypersingularIteration(i)
    \/ \E index \in DOMAIN pc : SingularDriver /\ SingularIteration(index)
    \/ \E index \in DOMAIN pc : SingularDriver /\ HypersingularSingularIteration(index)
    \/ \E element_index \in DOMAIN pc : SparseEnter(element_index)
    \/ \E element_index \in DOMAIN pc : SparseLoad(element_index)
    \/ \E element_index \in DOMAIN pc : SparseStore(element_index)
    \/ AssemblyReturn
SpecAssembly == InitAssembly /\ [][NextAssembly]_vars

\* C16: no step of any of the five drivers changes an argument of the call
\* other than result: the grid data, the element arrays, the DOF and
\* multiplier tables, the normal multipliers, the quadrature points and
\* weights, the kernel parameters and the work items stay as they were, so
\* they are unchanged when the call returns.
C16_OnlyResultWritten == [][inputs' = inputs]_vars
\* A call of laplace_hypersingular_singular with a normal multiplier of -1
\* has returned and has changed result.
C16_Witness ==
    /\ SingularDriver /\ assembly_type = "laplace_hypersingular"
    /\ returned = Returned("None")
    /\ \E e \in DOMAIN test_normal_multipliers : test_normal_multipliers[e] = -1
    /\ \E cell \in DOMAIN result : result[cell] # call.result[cell]

(***************************************************************************)
(* shapes.py, __generate_grid_from_geo_string: the geometry is written to   *)
(* a temporary .geo file, the mesh generator is run on it by the shell and  *)
(* the .msh file it leaves is imported.  The state of the call is held in   *)
(* call: the setting GMSH_PATH, the argument, the line the call is at, the  *)
(* files on disk, the state of fnull, what was printed, the number of runs  *)
(* of the command and of imports, and the exception being handled.          *)
(***************************************************************************)
\* The value None, which is none of the commands of the model.
None == "None"
GmshCommands == {"gmsh", "/opt/gmsh/bin/gmsh"}
GeoStrings == {"cube", "multitrace_cube", "sphere"}
\* The exit statuses of the command: success, two failures of the mesh
\* generator and the shell's command not found.
ExitStatuses == {0, 1, 2, 127}
geo_name == "tmp.geo"
msh_name == "tmp.msh"
cmd == [gmsh_command |-> call.GMSH_PATH, option |-> "-2", geo_name |-> geo_name]
NoError == [type |-> "none", returncode |-> 0]
RuntimeError == [type |-> "RuntimeError", returncode |-> 0]
CalledProcessError(returncode) == [type |-> "CalledProcessError", returncode |-> returncode]
\* The call is at a line of __generate_grid_from_geo_string (0: it has ended).
At(line) == call # <<>> /\ call.routine = "__generate_grid_from_geo_string" /\ call.line = line
Without(files, name) == [other \in DOMAIN files \ {name} |-> files[other]]

InitGeo ==
    /\ NoAssembly
    /\ \E path \in {None} \cup GmshCommands, geo_string \in GeoStrings :
          call = [routine |-> "__generate_grid_from_geo_string",
                  GMSH_PATH |-> path, geo_string |-> geo_string,
                  line |-> 53, files |-> [name \in {} |-> ""], fnull |-> "none",
                  printed |-> <<>>, returncodes |-> <<>>, imports |-> 0,
                  error |-> NoError]
    /\ returned = Pending

\* Lines 53-55: without a command the call raises, and nothing in
\* __generate_grid_from_geo_string catches.
ReadGmshPath ==
    /\ At(53)
    /\ IF call.GMSH_PATH = None
       THEN /\ call' = [call EXCEPT !.line = 0]
            /\ returned' = Raised(RuntimeError)
       ELSE /\ call' = [call EXCEPT !.line = 56]
            /\ UNCHANGED returned
    /\ UNCHANGED <<inputs, result, workers>>

\* Line 56, get_gmsh_file (lines 19-23): the empty .geo file is made.
GetGmshFile ==
    /\ At(56)
    /\ call' = [call EXCEPT !.line = 57, !.files = [name \in {geo_name} |-> ""]]
    /\ UNCHANGED <<inputs, result, workers, returned>>

\* Lines 57-58: the geometry is written to it and it is closed.
WriteGeoString ==
    /\ At(57)
    /\ call' = [call EXCEPT !.line = 60, !.files[geo_name] = call.geo_string]
    /\ UNCHANGED <<inputs, result, workers, returned>>

\* Line 60: fnull is opened.
OpenFnull ==
    /\ At(60)
    /\ call' = [call EXCEPT !.line = 63, !.fnull = "open"]
    /\ UNCHANGED <<inputs, result, workers, returned>>

\* Lines 61-64: the command is run by the shell; it ends with any exit
\* status, and check_call raises for every status but 0.  A successful run
\* leaves the .msh file or, the mesh generator being what it is, none.
CheckCall ==
    /\ At(63)
    /\ \E status \in ExitStatuses, written \in BOOLEAN :
          IF status = 0
          THEN call' = [call EXCEPT !.returncodes = Append(@, status), !.line = 69,
                                    !.files = IF written
                                              THEN [name \in {geo_name, msh_name} |->
                                                       call.geo_string]
                                              ELSE @]
          ELSE /\ ~written
               /\ call' = [call EXCEPT !.returncodes = Append(@, status), !.line = 66,
                                       !.error = CalledProcessError(status)]
    /\ UNCHANGED <<inputs, result, workers, returned>>

\* Lines 65-67: the handler prints the command and closes fnull.
ExceptClause ==
    /\ At(66)
    /\ call' = [call EXCEPT !.printed = Append(@, cmd), !.fnull = "closed", !.line = 68]
    /\ UNCHANGED <<inputs, result, workers, returned>>

\* A variant of the handler's end that goes on after the try statement.
ReraiseSwallowed ==
    /\ At(68)
    /\ call' = [call EXCEPT !.line = 69]
    /\ UNCHANGED <<inputs, result, workers, returned>>

\* Line 68: it raises the exception it caught; the .geo file stays.
Reraise ==
    /\ At(68)
    /\ call' = [call EXCEPT !.line = 0]
    /\ returned' = Raised(call.error)
    /\ UNCHANGED <<inputs, result, workers>>

\* Line 69: after a successful run the .geo file is removed.
RemoveGeoFile ==
    /\ At(69)
    /\ call' = [call EXCEPT !.line = 70, !.files = Without(@, geo_name)]
    /\ UNCHANGED <<inputs, result, workers, returned>>

\* Lines 70-73: fnull is closed and msh_from_string returns msh_name.
CloseFnull ==
    /\ At(70)
    /\ call' = [call EXCEPT !.line = 74, !.fnull = "closed"]
    /\ UNCHANGED <<inputs, result, workers, returned>>

\* Line 74: the .msh file is imported; the import raises when there is no
\* such file.
ImportGrid ==
    /\ At(74)
    /\ IF msh_name \in DOMAIN call.files
       THEN /\ call' = [call EXCEPT !.imports = @ + 1, !.line = 75]
            /\ UNCHANGED returned
       ELSE /\ call' = [call EXCEPT !.imports = @ + 1, !.line = 0]
            /\ returned' = Raised([type |-> "import_grid", returncode |-> 0])
    /\ UNCHANGED <<inputs, result, workers>>

\* Lines 75-76: the .msh file is removed and the grid is returned.
ReturnGrid ==
    /\ At(75)
    /\ call' = [call EXCEPT !.line = 0, !.files = Without(@, msh_name)]
    /\ returned' = Returned([grid |-> call.files[msh_name]])
    /\ UNCHANGED <<inputs, result, workers>>

NextGeo ==
    \/ ReadGmshPath
    \/ GetGmshFile
    \/ WriteGeoString
    \/ OpenFnull
    \/ CheckCall
    \/ ExceptClause
    \/ Reraise
    \/ RemoveGeoFile
    \/ CloseFnull
    \/ ImportGrid
    \/ ReturnGrid
SpecGeo == InitGeo /\ [][NextGeo]_vars

\* The mesh generator cannot be used: no command is configured, or a run of
\* the command has ended with a failure.
CannotMesh ==
    \/ call.GMSH_PATH = None
    \/ \E run \in DOMAIN call.returncodes : call.returncodes[run] # 0
Finished == call.line = 0

\* C17: when no command is configured, or the command has exited with a
\* failure, the call imports no grid and returns none, runs the command at
\* most once (not at all without a command), and ends by raising to its
\* caller the error met: the RuntimeError, or the CalledProcessError of
\* that exit status.
C17_FailurePropagates ==
    CannotMesh =>
        /\ call.imports = 0
        /\ returned.status # "returned"
        /\ Len(call.returncodes) = (IF call.GMSH_PATH = None THEN 0 ELSE 1)
        /\ call.line \in {53, 66, 68, 0}
        /\ Finished =>
              returned = Raised(IF call.GMSH_PATH = None THEN RuntimeError
                                ELSE CalledProcessError(call.returncodes[1]))
\* A run of the command has failed and the call has ended by raising that
\* failure, one run made, the command printed and nothing imported.
C17_Witness ==
    /\ At(0)
    /\ call.returncodes # <<>> /\ call.returncodes[1] # 0
    /\ returned = Raised(CalledProcessError(call.returncodes[1]))
    /\ Len(call.returncodes) = 1 /\ call.imports = 0 /\ Len(call.printed) = 1

(***************************************************************************)
(* Two calls of default_scalar_regular_kernel that differ in                *)
(* test_normal_multipliers only: when the first has returned, its caller    *)
(* keeps its result and calls again, on a zero buffer, with the other       *)
(* multipliers.  Calls of default_scalar_singular_kernel are run beside     *)
(* them.                                                                    *)
(***************************************************************************)
InitTwoCalls ==
    /\ assembly_type = "default_scalar"
    /\ InitRegularSeq \/ InitSingularSeq

\* The second call: every argument is as in the first but
\* test_normal_multipliers, and call keeps what the first call has left.
SecondCall ==
    /\ RegularDriver
    /\ returned = Returned("None")
    /\ call = <<>>
    /\ call' = [first |-> result, test_normal_multipliers |-> test_normal_multipliers]
    /\ test_normal_multipliers' \in NormalMultipliers \ {test_normal_multipliers}
    /\ result' = [cell \in DOMAIN result |-> Zero]
    /\ pc' = [i \in DOMAIN pc |-> "start"]
    /\ cursor' = [i \in DOMAIN pc |-> 0]
    /\ local_result' = [i \in DOMAIN pc |-> Zero]
    /\ is_adjacent' = [i \in DOMAIN pc |-> Zero]
    /\ returned' = Pending
    /\ UNCHANGED <<assembly_type, grids, test_elements, trial_elements, spaces,
                   trial_normal_multipliers, quad_points, quad_weights,
                   kernel_parameters, items, reg>>

NextTwoCalls ==
    \/ \E i \in DOMAIN pc : RegularDriver /\ RegularIteration(i)
    \/ \E index \in DOMAIN pc : SingularDriver /\ SingularIteration(index)
    \/ AssemblyReturn
    \/ SecondCall
SpecTwoCalls == InitTwoCalls /\ [][NextTwoCalls]_vars

\* The second of the two calls has returned.
BothReturned == RegularDriver /\ call # <<>> /\ returned = Returned("None")
\* The normal of an element of a grid, times its multiplier.
ScaledNormal(grid_data, element, multipliers) ==
    [d \in 0 .. 2 |-> grid_data.normals[element][d] * multipliers[element]]

\* C21: two calls of default_scalar_regular_kernel whose arguments differ
\* only in test_normal_multipliers leave the same result: every kernel
\* evaluation in result has as its test normal the normal of the grid as it
\* is stored and as its trial normal the normal of the grid times
\* trial_normal_multipliers, whereas in default_scalar_singular_kernel both
\* normals are scaled by their multipliers.
C21_IgnoresTestNormalMultipliers ==
    /\ BothReturned => result = call.first
    /\ RegularDriver =>
          \A cell \in DOMAIN result : \A sym \in DOMAIN result[cell] :
              /\ sym.nx = test_grid_data.normals[sym.x.element]
              /\ sym.ny = ScaledNormal(trial_grid_data, sym.y.element,
                                       trial_normal_multipliers)
    /\ SingularDriver =>
          \A cell \in DOMAIN result : \A sym \in DOMAIN result[cell] :
              sym \notin DOMAIN Previous =>
                  /\ sym.nx = ScaledNormal(test_grid_data, sym.x.element,
                                           test_normal_multipliers)
                  /\ sym.ny = ScaledNormal(test_grid_data, sym.y.element,
                                           trial_normal_multipliers)
\* The second call has returned, with a normal multiplier of a test element
\* other than in the first call, and both have left the same result, which
\* holds a kernel evaluation on that test element.
C21_Witness ==
    /\ BothReturned
    /\ result = call.first
    /\ \E e \in DOMAIN test_normal_multipliers :
          /\ test_normal_multipliers[e] # call.test_normal_multipliers[e]
          /\ \E cell \in DOMAIN result : \E sym \in DOMAIN result[cell] :
                sym.x.element = e

\* The arrays of the call have mismatched shapes.
ShapesMismatch == Len0(quad_weights) # Len0(quad_points)
\* C9: a driver called with arrays of mismatched shapes fails with an error
\* before its parallel loop starts: no iteration runs, result stays as it
\* was on entry and the call does not return normally.
C9_FailsFast ==
    ShapesMismatch =>
        /\ \A i \in DOMAIN pc : pc[i] = "start"
        /\ \A cell \in DOMAIN result : result[cell] = Zero
        /\ returned.status # "returned"

====
